---- MODULE Spec2Model ----
(***************************************************************************)
(* EMG Force Bridge firmware: acquisition -> processing -> UART stream and *)
(* BLE telemetry.  Tasks communicate through two FreeRTOS queues; the BLE  *)
(* host task runs gap_event() and the notify task reads the globals that   *)
(* gap_event() writes.                                                     *)
(*                                                                         *)
(* Units: times are microseconds (esp_timer_get_time), voltages are        *)
(* microvolts (the code's float volts times 10^6).                         *)
(***************************************************************************)
EXTENDS Integers, Sequences, FiniteSets, TLC

----------------------------------------------------------------------------
(* Bounds of the model *)

\* Queue capacity used by the model; the code creates both queues with 256.
QueueCap == 2
\* Number of samples the acquisition loop produces in a run.
MaxSamples == 3
\* Number of clock steps in a run.
MaxTicks == 4
\* Number of clock steps in a run of the BLE peripheral, whose start-up
\* alone takes 100 ms.
MaxBleTicks == 6
\* Number of connections a central establishes in a run.
MaxEpochs == 2

\* Dashboard: network calls one poller may have in flight, and polling
\* sessions (start ... stop) of one poller in a run.
MaxInflight == 2
MaxSessions == 2
\* Network calls one poller issues in a run.
MaxRequests == 4
\* Gateway: notification steps and HTTP POSTs in a run, and the step of its
\* clock in milliseconds.
MaxNotifies == 4
MaxPosts == 2
GwTickMs == 50
\* Legacy sketch: passes of loop() modelled one by one in a run.
MaxLoops == 6
\* Trials created on the clinical page in a run.
MaxTrials == 3
\* Steps that add log entries in a run.
MaxLogAdds == 5

\* Granularity of the device clock in the model (microseconds per step).
TickUs == 25000

\* Samples fed to the sliding RMS in a run, and the number of leading samples
\* whose value is chosen freely (the samples between them and the first
\* eviction are quiet).
RmsMaxFed == 88
RmsFree == 2

----------------------------------------------------------------------------
(* Program constants *)

BLE_STREAM_INTERVAL_MS == 50
THRESH_ON_UV == 50000
THRESH_OFF_UV == 30000
LSB_UV == 125
SEQ_MOD == 65536

\* Raw ADC codes the converter returns in the model (int16_t).
RawCodes == {-3, 5}
\* Envelope values (microvolts) produced by the float filter chain; the grid
\* brackets both hysteresis thresholds on each side.
EnvLevels == {30000, 30001, 49999, 50000}
\* Connection handles the stack may assign (NimBLE numbers them from 0).
ConnHandles == {0, 1}
\* Attribute handle the stack gives the telemetry characteristic value, and
\* another attribute's handle (a characteristic of the GATT service).
TelemetryValHandle == 12
OtherAttrHandle == 8

VARIABLES
    now,            \* esp_timer_get_time()
    mainPc,         \* app_main: "boot" | "heartbeat"
    mainStarted,    \* stages app_main has started, in order
    s_emg_queue,    \* task_acq.c s_emg_queue: [h |-> created, items |-> contents]
    acqPc,          \* emg_acq_task: "none" | "init" | "run" | "delay" | "dead"
    nProduced,      \* samples built by the acquisition loop
    rawDropped,     \* samples refused by the full raw queue
    s_proc_queue,   \* task_proc.c s_proc_queue
    procPc,         \* emg_proc_task: "none" | "ready" (created, not yet run)
                    \* | "run" | "dead"
    active,         \* emg_proc_task local: hysteresis state
    built,          \* packets built by the processing task, in order
    procDropped,    \* packets refused by the full processed queue
    streamPc,       \* emg_stream_task: "none" | "ready" (created, not yet
                    \* run) | "run"; "raw_ready" | "raw_run" for the raw
                    \* variant
    streamQ,        \* emg_stream_task local q (TRUE: non-NULL handle)
    uartOut,        \* lines written to the UART
    bleState,       \* ble_emg_start: "off" | "settle" (caller blocked in
                    \* vTaskDelay) | "hci" (caller ready again) | "failed"
                    \* | "started" | "synced"
    bleWake,        \* clock value at which the vTaskDelay of ble_emg_start
                    \* ends
    link,           \* controller: "off" | "idle" | "adv" | "conn"
    linkHandle,     \* handle of the live connection
    evt,            \* GAP event waiting for the host task's gap_event()
    epoch,          \* connections established so far
    s_conn_handle,
    s_val_handle,
    s_notify_enabled,
    s_seq,
    notifyPc,       \* ble_notify_task: "none" | "ready" (created, not yet
                    \* run) | "recv" | "send"
    notifyQ,        \* ble_notify_task local q
    last_send_us,   \* ble_notify_task local
    pkt,            \* ble_notify_task local: frame built, waiting for notify
    frames,         \* frames handed to a live connection, in order
    rms,            \* emg_proc_task local rms_win_t (sliding RMS window)
    rmsIn,          \* samples fed to rms_step since rms_init, in order
    encIn,          \* ble_notify_task locals p and seq of one frame build
    encOut,         \* ble_notify_task local pkt[12] after the memcpy calls
    i2cCfg,         \* bus configuration of the installed I2C driver, or "none"
    adcReg,         \* config register of the ADS1115
    s_gain,         \* main.c s_gain (hundredths)
    s_lsb_volts,    \* main.c s_lsb_volts (1/128 microvolt per count)
    adcReady,       \* an ads1115_init call has returned ESP_OK
    adsInitPc,      \* ads1115_init: "idle", or the call its caller is
                    \* blocked in: "sanity" (i2c_master_cmd_begin),
                    \* "settle" (vTaskDelay), "probe", "diag", "scan",
                    \* "write", "readback" (bus transactions)
    adsAttempts,    \* ads1115_init: the configurations probed so far
    pgaPc,          \* ads1115_set_pga: "idle", or the bus transaction its
                    \* caller is blocked in: "read", "write"
    pgaArg,         \* ads1115_set_pga: the argument pga_field
    pgaCfg,         \* ads1115_set_pga: local cfg after lines 213-214
    adcOverlap,     \* a driver call was started while another was running
    adcCall,        \* the last driver call: arguments, outcome, return value
    uiPoller,       \* dashboard poller exercised in this run, or "none"
    uiGen,          \* polling sessions started (one `active` closure each)
    uiActive,       \* the `active` flag of the current session
    uiMounted,      \* the poller's component is displayed
    uiInflight,     \* network calls in flight, oldest first: the session
                    \* that issued each and its number in issue order
    uiTimers,       \* sessions of pollLatest with a setTimeout pending
    uiHealth,       \* failed calls of pollLatest whose tick awaits the
                    \* health check: session and number of each
    uiInstGen,      \* first session of the component instance displayed
    uiIssued,       \* network calls issued so far
    uiShown,        \* number of the call whose outcome was applied last
    uiLast,         \* what the last completed call did
    uiData,         \* state the poller writes (lastSample, series, samples,
                    \* preview): 0 is empty, otherwise the response applied
    backendOnline,  \* deviceStore.backendOnline
    logs,           \* useLogStore.logs: the ids of the entries, oldest first
    logStorage,     \* localStorage['efb_logs_v1']: whether the key is set,
                    \* and the saved ids
    logNextId,      \* entries created so far, plus one
    logAdds,        \* steps that added entries so far
    logOpen,        \* the application is loaded in the browser
    calStorage,     \* localStorage['efb_calibration_v1']: whether the key is
                    \* set, and the saved object (storage key -> value)
    selectedChannel,\* deviceStore.selectedChannel
    calOpen,        \* the calibration page is displayed
    baseline,       \* Calibration's baseline state (NoValue for null)
    preview,        \* Calibration's preview state (NoValue for null)
    currentSession, \* ClinicalDashboard: a session is loaded
    currentTrial,   \* ClinicalDashboard: id and MVC of the current trial
    isTrialActive,  \* ClinicalDashboard.isTrialActive
    trialStartTime, \* ClinicalDashboard.trialStartTime: NoValue for null,
                    \* otherwise the number of the trial it was set for
    recentTrials,   \* number of finished trials listed
    trialsCreated,  \* trials created by the backend so far
    loading,        \* ActionSidebar.loading: the action in progress
    pending,        \* sidebar actions whose handler was invoked and has
                    \* not finished
    awaiting,       \* what each sidebar action waits for: "none" (not
                    \* invoked), "returned" (its handler has returned and
                    \* handleAction awaits it) or the request in flight
    mvcRequest,     \* the last set-trial-MVC request issued
    clinAlert,      \* the last alert shown to the operator
    gwLink,         \* gateway: "down" or "up" (subscribed to telemetry)
    gwExpected,     \* gateway: expected next sequence number (NoSeq: none)
    gwLastSeq,      \* sequence number of the last frame received
    gwGaps,         \* the gap warnings logged: presumed-lost counts
    gwBatch,        \* records in the in-memory batch
    gwAge,          \* ms since the oldest unflushed record arrived
    gwPosts,        \* HTTP POSTs sent so far
    gwLastPost,     \* the last POST: records carried, age of the oldest
    gwFrames,       \* frames received so far
    gwNotifies,     \* notification steps so far
    skPc,           \* legacy sketch: "boot" | "loop"
    skClock,        \* legacy sketch: microseconds since power-up, as
                    \* <<high, low>> with value high * 65536 + low
    skSetupAt,      \* time at which setup() read micros()
    nextSampleTime, \* unsigned long nextSampleTime (32 bits, as <<hi, lo>>)
    firstTs,        \* unsigned long firstTs
    firstSample,    \* bool firstSample
    skTaken,        \* samples taken so far
    skTakenAt,      \* time at which the last sample was taken
    skRow,          \* the last row printed: rel and raw
    skLoops,        \* single passes of loop() so far
    scanPc,         \* i2c_scan_bus: "idle" | "loop" | "done"
    scanAddr,       \* i2c_scan_bus local addr (uint8_t)
    scanProbed,     \* addresses a probe transaction was issued for, in order
    scanLogged,     \* addresses logged as found, in order
    scanFound,      \* i2c_scan_bus local found
    scanWarned,     \* the wiring checklist was logged
    bioMounted,     \* RealTimeBiofeedback is displayed
    bioMvc,         \* prop mvcRmsUv (NoValue for null)
    bioZone,        \* props targetZoneMin and targetZoneMax
    bioSamples,     \* state samples: rms and envelope of each, in order
    bioInZone       \* the indicator rendered: TRUE for 'In Zone'

mainVars == <<mainPc, mainStarted>>
acqVars == <<s_emg_queue, acqPc, nProduced, rawDropped>>
procVars == <<s_proc_queue, procPc, active, built, procDropped>>
streamVars == <<streamPc, streamQ, uartOut>>
gapVars == <<bleState, bleWake, link, linkHandle, evt, epoch,
             s_conn_handle, s_val_handle, s_notify_enabled>>
notifyVars == <<s_seq, notifyPc, notifyQ, last_send_us, pkt, frames>>
pipeVars == <<now, mainVars, acqVars, procVars, streamVars, gapVars,
              notifyVars>>
rmsVars == <<rms, rmsIn>>
encVars == <<encIn, encOut>>
adcVars == <<i2cCfg, adcReg, s_gain, s_lsb_volts, adcReady, adsInitPc,
             adsAttempts, pgaPc, pgaArg, pgaCfg, adcOverlap, adcCall>>
uiVars == <<uiPoller, uiGen, uiActive, uiMounted, uiInflight, uiTimers,
           uiHealth, uiInstGen, uiIssued, uiShown, uiLast, uiData,
           backendOnline>>
logVars == <<logs, logStorage, logNextId, logAdds, logOpen>>
calVars == <<calStorage, selectedChannel, calOpen, baseline, preview>>
clinVars == <<currentSession, currentTrial, isTrialActive, trialStartTime,
             recentTrials, trialsCreated, loading, pending, awaiting,
             mvcRequest, clinAlert>>
gwVars == <<gwLink, gwExpected, gwLastSeq, gwGaps, gwBatch, gwAge, gwPosts,
           gwLastPost, gwFrames, gwNotifies>>
skVars == <<skPc, skClock, skSetupAt, nextSampleTime, firstTs, firstSample,
           skTaken, skTakenAt, skRow, skLoops>>
scanVars == <<scanPc, scanAddr, scanProbed, scanLogged, scanFound,
             scanWarned>>
bioVars == <<bioMounted, bioMvc, bioZone, bioSamples, bioInZone>>
appVars == <<uiVars, logVars, calVars, clinVars, gwVars, skVars, scanVars,
            bioVars>>
libVars == <<rmsVars, encVars, adcVars, appVars>>
fwVars == <<pipeVars, rmsVars, encVars, adcVars>>
notUi == <<fwVars, logVars, calVars, clinVars, gwVars, skVars, scanVars,
          bioVars>>
notLog == <<fwVars, uiVars, calVars, clinVars, gwVars, skVars, scanVars,
           bioVars>>
notCal == <<fwVars, uiVars, logVars, clinVars, gwVars, skVars, scanVars,
           bioVars>>
notClin == <<fwVars, uiVars, logVars, calVars, gwVars, skVars, scanVars,
            bioVars>>
notGw == <<fwVars, uiVars, logVars, calVars, clinVars, skVars, scanVars,
          bioVars>>
notSk == <<fwVars, uiVars, logVars, calVars, clinVars, gwVars, scanVars,
          bioVars>>
notScan == <<fwVars, uiVars, logVars, calVars, clinVars, gwVars, skVars,
            bioVars>>
notBio == <<fwVars, uiVars, logVars, calVars, clinVars, gwVars, skVars,
           scanVars>>
vars == <<pipeVars, libVars>>

----------------------------------------------------------------------------
(* FreeRTOS queue *)

NullQueue == [h |-> FALSE, items |-> <<>>]

\* xQueueCreate(n, size)
QueueCreate == [h |-> TRUE, items |-> <<>>]

\* xQueueSend(q, &item, 0): TRUE and appended when there is room, else
\* errQUEUE_FULL and the queue untouched.
QueueHasRoom(q) == Len(q.items) < QueueCap

\* A send that puts the item at the head of the queue.
QueueSendToFront(q, item) ==
    IF QueueHasRoom(q) THEN [q EXCEPT !.items = <<item>> \o @] ELSE q

QueueSendOverwrite(q, item) ==
    IF Len(q.items) < QueueCap
    THEN [q EXCEPT !.items = Append(@, item)]
    ELSE [q EXCEPT !.items = Append(Tail(@), item)]

QueueSend(q, item) ==
    IF QueueHasRoom(q) THEN [q EXCEPT !.items = Append(@, item)] ELSE q

----------------------------------------------------------------------------
(* ADS1115 driver *)

\* Units: s_lsb_volts is in 1/128 microvolt per count (4.096 V / 32768 =
\* 125 uV = 16000 units), s_gain in hundredths, volts in microvolts.

\* Config register bit fields (lines 129-161).
ADS1115_MUX_AIN0_GND == 4 * 4096
ADS1115_PGA_6V144 == 0 * 512
ADS1115_PGA_4V096 == 1 * 512
ADS1115_PGA_2V048 == 2 * 512
ADS1115_PGA_1V024 == 3 * 512
ADS1115_PGA_0V512 == 4 * 512
ADS1115_PGA_0V256 == 5 * 512
ADS1115_PGA_MASK == 7 * 512
ADS1115_MODE_CONTINUOUS == 0 * 256
ADS1115_DR_860 == 7 * 32
ADS1115_COMP_DISABLE == 3

\* Config register of the device after power-on (datasheet: 8583h).
ADS1115_RESET_CONFIG == 34179

\* a & b and a | b on 16-bit words.
RECURSIVE BitAnd(_, _)
BitAnd(a, b) ==
    IF a = 0 \/ b = 0 THEN 0
    ELSE (a % 2) * (b % 2) + 2 * BitAnd(a \div 2, b \div 2)

BitOr(a, b) == a + b - BitAnd(a, b)

\* pga_lsb_from_field(pga_field)
pga_lsb_from_field(pga_field) ==
    CASE pga_field = ADS1115_PGA_6V144 -> 24000
      [] pga_field = ADS1115_PGA_4V096 -> 16000
      [] pga_field = ADS1115_PGA_2V048 -> 8000
      [] pga_field = ADS1115_PGA_1V024 -> 4000
      [] pga_field = ADS1115_PGA_0V512 -> 2000
      [] pga_field = ADS1115_PGA_0V256 -> 1000
      [] OTHER -> 16000

\* A check that only asks the value to lie inside the gain field.
pga_field_in_mask(pga_field) ==
    BitAnd(pga_field, 65535 - ADS1115_PGA_MASK) = 0

\* pga_field_valid(pga_field)
pga_field_valid(pga_field) ==
    pga_field \in {ADS1115_PGA_6V144, ADS1115_PGA_4V096, ADS1115_PGA_2V048,
                   ADS1115_PGA_1V024, ADS1115_PGA_0V512, ADS1115_PGA_0V256}

\* The three bytes of a config write: register pointer, MSB, LSB.
ConfigBytesLsbFirst(cfg) == <<1, cfg % 256, cfg \div 256>>

ConfigBytes(cfg) == <<1, cfg \div 256, cfg % 256>>

\* The device latches the two data bytes of a config write, MSB first.
RegFromBytes(buf) == buf[2] * 256 + buf[3]

\* The default configuration word built by ads1115_init (lines 370-375).
DefaultConfig ==
    BitOr(ADS1115_MUX_AIN0_GND,
      BitOr(ADS1115_PGA_4V096,
        BitOr(ADS1115_MODE_CONTINUOUS,
          BitOr(ADS1115_DR_860, ADS1115_COMP_DISABLE))))

\* Bus configurations ads1115_init tries, in the order it tries them.
BusConfigs == <<"primary", "swapped", "slow">>

\* The ladder without its third rung.
InitLadderNoSlow(k) == IF k < 2 THEN BusConfigs[k + 1] ELSE "none"

\* The fallback ladder of ads1115_init (lines 318-356): the configuration
\* tried after the probe of configuration k went unanswered, "none" when
\* the call gives up.
InitLadder(k) == IF k < 3 THEN BusConfigs[k + 1] ELSE "none"

\* One rung of the ladder: the configuration, whether i2c_reinit installed
\* it, whether ads1115_probe was answered on it.
Attempt(cfg, reinit, probe) ==
    [cfg |-> cfg, reinit |-> reinit, probe |-> probe]

\* ads1115_scale_to_volts(raw): (raw * s_lsb_volts) * s_gain.
ScaleToVolts(raw, lsb, gain) == (raw * lsb * gain) \div 12800

\* The conversion with the software gain left out.
ScaleToVoltsNoGain(raw, lsb, gain) == (raw * lsb * 100) \div 12800

\* ads1115_scale_to_volts(raw) on the driver's globals.
ads1115_scale_to_volts(raw) == ScaleToVolts(raw, s_lsb_volts, s_gain)

\* ads1115_set_gain(gain): the new value of s_gain.
ads1115_set_gain_unchecked(gain, cur) == gain

ads1115_set_gain(gain, cur) ==
    IF gain > 0 /\ gain <= 10000 THEN gain ELSE cur

NoCall == [op |-> "none", arg |-> 0, ret |-> "ok", attempts |-> <<>>,
           written |-> 0, readback |-> 0, busOps |-> 0, volts |-> 0]

\* ads1115_set_pga with the LSB updated before the register write.
ads1115_set_pga_lsb_first(pga_field, cfg, wrote) ==
    [ret |-> IF wrote THEN "ok" ELSE "fail",
     reg |-> IF wrote THEN RegFromBytes(ConfigBytes(cfg)) ELSE adcReg,
     lsb |-> pga_lsb_from_field(pga_field)]

\* ads1115_set_pga(pga_field) from the end of its register write (lines
\* 216-223), cfg being the word it sent and wrote the outcome of the
\* transaction: return value, device register and LSB afterwards.
ads1115_set_pga(pga_field, cfg, wrote) ==
    [ret |-> IF wrote THEN "ok" ELSE "fail",
     reg |-> IF wrote THEN RegFromBytes(ConfigBytes(cfg)) ELSE adcReg,
     lsb |-> IF wrote THEN pga_lsb_from_field(pga_field) ELSE s_lsb_volts]

----------------------------------------------------------------------------
(* Single-precision arithmetic on integer-valued floats *)

\* Round n to the nearest multiple of q, ties to the even multiple.
RoundToEven(n, q) ==
    LET m == n \div q
        r == n % q
    IN IF 2 * r < q THEN m * q
       ELSE IF 2 * r > q THEN (m + 1) * q
       ELSE IF m % 2 = 0 THEN m * q ELSE (m + 1) * q

\* Spacing of the floats around a magnitude a (24-bit significand).
F32Ulp(a) ==
    IF a < 16777216 THEN 1
    ELSE IF a < 33554432 THEN 2
    ELSE IF a < 67108864 THEN 4
    ELSE IF a < 134217728 THEN 8
    ELSE IF a < 268435456 THEN 16
    ELSE IF a < 536870912 THEN 32
    ELSE IF a < 1073741824 THEN 64
    ELSE 128

\* The float nearest to the integer v (round to nearest, ties to even).
F32(v) ==
    IF v >= 0 THEN RoundToEven(v, F32Ulp(v))
    ELSE -RoundToEven(-v, F32Ulp(-v))

----------------------------------------------------------------------------
(* Sliding RMS (task_proc.c, rms_win_t) *)

\* enum { RMS_N = 86 }
RMS_N == 86

\* The window before rms_init: no storage attached.
NoWindow == [buf |-> <<>>, cap |-> 0, idx |-> 0, count |-> 0, sumsq |-> 0]

\* rms_init(w, storage, n); storage is a zeroed static array of n floats.
rms_init(n) ==
    [buf |-> [i \in 1..n |-> 0], cap |-> n, idx |-> 0, count |-> 0,
     sumsq |-> 0]

WrapIdx(i, cap) == IF i = cap THEN 0 ELSE i

\* rms_step(w, x): the window after the step.  buf[k] of the code is
\* buf[k + 1] here.
rms_step(w, x) ==
    LET x2 == F32(x * x)
    IN IF w.count < w.cap
       THEN [w EXCEPT !.buf[w.idx + 1] = x2,
                      !.sumsq = F32(w.sumsq + x2),
                      !.count = w.count + 1,
                      !.idx = WrapIdx(w.idx + 1, w.cap)]
       ELSE LET old == w.buf[w.idx + 1]
            IN [w EXCEPT !.buf[w.idx + 1] = x2,
                         !.sumsq = F32(w.sumsq + F32(x2 - old)),
                         !.idx = WrapIdx(w.idx + 1, w.cap)]

\* The value rms_step returns is sqrtf(sumsq / count); the model keeps the
\* two operands of the quotient.
rms_value(w) == [sumsq |-> w.sumsq, count |-> w.count]

----------------------------------------------------------------------------
(* Telemetry frame layout (ble_notify_task, lines 338-359) *)

\* An int64_t microsecond timestamp too large for one model integer is kept
\* as the pair (hi, lo) with ts_us = hi * 65536000 + lo, 0 <= lo < 65536000.
WideUs(t) == [hi |-> t \div 65536000, lo |-> t % 65536000]

\* (uint32_t)(ts_us / 1000) as its two 16-bit halves: ts_us / 1000 is
\* hi * 65536 + lo / 1000, and the cast keeps the low 32 bits.
TsMs32(w) == [h16 |-> w.hi % 65536, l16 |-> w.lo \div 1000]

\* memcpy of a 16-bit value on the little-endian target.
LE16(v) == <<v % 256, v \div 256>>

\* Bit pattern of an int16_t.
I16Bits(v) == IF v < 0 THEN v + 65536 ELSE v

\* (int16_t)v, the cast without the saturation in front of it.
WrapI16(v) == ((v + 32768) % 65536) - 32768

\* Lines 345-346: saturate to int16_t.
ClampI16(v) == IF v > 32767 THEN 32767 ELSE IF v < -32768 THEN -32768 ELSE v

\* The value q + r / d doubled until its integer part has 24 bits: after k
\* doublings q is the significand of the value, truncated, and r / d what
\* the truncation left out.
RECURSIVE F32Scale(_, _, _, _)
F32Scale(q, r, d, k) ==
    IF q >= 8388608 THEN [q |-> q, r |-> r, k |-> k]
    ELSE F32Scale(2 * q + (2 * r) \div d, (2 * r) % d, d, k + 1)

\* The float nearest to a / d (a > 0), as n / 2^k with a 24-bit n: round to
\* nearest, ties to even.
F32Quotient(a, d) ==
    LET t == F32Scale(a \div d, a % d, d, 0)
        up == \/ 2 * t.r > d
              \/ 2 * t.r = d /\ t.q % 2 = 1
    IN [n |-> IF up THEN t.q + 1 ELSE t.q, k |-> t.k]

\* lrintf(m / 2^s) for 0 <= m < 2^31: round to nearest, ties to even.
LrintfScaled(m, s) ==
    IF s >= 32 THEN 0
    ELSE IF s = 31 THEN (IF m > 1073741824 THEN 1 ELSE 0)
    ELSE IF s <= 0 THEN m * 2^(0 - s)
    ELSE LET q == 2^s
             i == m \div q
             r == m % q
         IN IF 2 * r > q \/ (2 * r = q /\ i % 2 = 1) THEN i + 1 ELSE i

\* lrintf(v * c) in single precision, where v is the float nearest to x / d
\* and the constant c is odd * 2^sh: the product is rounded to a float
\* before lrintf rounds it to an integer.
LrintfProduct(x, d, odd, sh) ==
    IF x = 0 THEN 0
    ELSE LET v == F32Quotient(IF x < 0 THEN -x ELSE x, d)
             i == LrintfScaled(F32(odd * v.n), v.k - sh)
         IN IF x < 0 THEN -i ELSE i

\* Lines 341-344: lrintf(p.env * 1000.0f) for the float p.env nearest to x
\* microvolts.
LrintDiv1000(x) == LrintfProduct(x, 1000000, 125, 3)

\* Lines 349-350: qf = snr * 25.0f limited to [0, 100], then lrintf.  snr is
\* in thousandths.  The limits are integers, so limiting the rounded value
\* gives the integer that rounding the limited value gives.
Quality(snr) ==
    LET q == LrintfProduct(snr, 1000, 25, 0)
    IN IF q > 100 THEN 100 ELSE IF q < 0 THEN 0 ELSE q

\* Lines 339-359: the 12 bytes of pkt.  p.ts is the timestamp as a pair,
\* p.env and p.rms are in microvolts, p.snr in thousandths.
EncodeFrame(p, seq) ==
    LET ts_ms == TsMs32(p.ts)
        env_mv == ClampI16(LrintDiv1000(p.env))
        rms_mv == ClampI16(LrintDiv1000(p.rms))
        actv == IF p.active # 0 THEN 1 ELSE 0
    IN LE16(ts_ms.l16) \o LE16(ts_ms.h16)
         \o LE16(I16Bits(env_mv)) \o LE16(I16Bits(rms_mv))
         \o <<actv>> \o <<Quality(p.snr)>> \o LE16(seq)

NoEncIn == [ts |-> WideUs(0), env |-> 0, rms |-> 0, active |-> 0, snr |-> 0,
            seq |-> 0]

----------------------------------------------------------------------------
(* Initial state: power-on, nothing started *)

NoEvt == [type |-> "none", status |-> 0, conn_handle |-> 0, attr_handle |-> 0,
          cur_notify |-> FALSE]
NoPkt == [seq |-> 0, ts_ms |-> 0, env_mv |-> 0, active |-> 0, t |-> 0,
          built_in |-> 0, epoch |-> 0]

\* deviceStore.channels
Channels == {0, 1, 2, 3}
\* null / a key that the saved object does not have.
NoValue == -1
\* One storage key for every channel.
SharedKey(ch) == 0
\* The key of channel ch in the saved object: `ch_${ch}`.
ChannelKey(ch) == ch
StorageKeys == {ChannelKey(ch) : ch \in Channels}

\* currentTrial == null; no set-trial-MVC request issued.
NoTrial == [id |-> 0, mvc_rms_uv |-> 0]
NoRequest == [trial |-> 0, mvc_rms_uv |-> 0]
\* The actions of the sidebar (ActionSidebar.tsx 39-93).
SidebarActions == {"start", "stop", "mvc", "flag"}

\* Gateway: no sequence number seen on this connection; no POST sent.
NoSeq == -1
NoPost == [n |-> 0, age |-> 0]

\* No call has completed yet.
NoOutcome == [op |-> "none", req |-> 0, live |-> FALSE, ok |-> FALSE,
              health |-> "none", rearmed |-> FALSE]

Init ==
    /\ now = 0
    /\ mainPc = "boot"
    /\ mainStarted = <<>>
    /\ s_emg_queue = NullQueue
    /\ acqPc = "none"
    /\ nProduced = 0
    /\ rawDropped = 0
    /\ s_proc_queue = NullQueue
    /\ procPc = "none"
    /\ active = 0
    /\ built = <<>>
    /\ procDropped = 0
    /\ streamPc = "none"
    /\ streamQ = FALSE
    /\ uartOut = <<>>
    /\ bleState = "off"
    /\ bleWake = 0
    /\ link = "off"
    /\ linkHandle = 0
    /\ evt = NoEvt
    /\ epoch = 0
    /\ s_conn_handle = 0
    /\ s_val_handle = 0
    /\ s_notify_enabled = FALSE
    /\ s_seq = 0
    /\ notifyPc = "none"
    /\ notifyQ = FALSE
    /\ last_send_us = 0
    /\ pkt = NoPkt
    /\ frames = <<>>
    /\ rms = NoWindow
    /\ rmsIn = <<>>
    /\ encIn = NoEncIn
    /\ encOut = <<>>
    /\ i2cCfg = "none"
    /\ adcReg = ADS1115_RESET_CONFIG
    /\ s_gain = 100
    /\ s_lsb_volts = LSB_UV * 128
    /\ adcReady = FALSE
    /\ adsInitPc = "idle"
    /\ adsAttempts = <<>>
    /\ pgaPc = "idle"
    /\ pgaArg = 0
    /\ pgaCfg = 0
    /\ adcOverlap = FALSE
    /\ adcCall = NoCall
    /\ uiPoller = "none"
    /\ uiGen = 0
    /\ uiActive = FALSE
    /\ uiMounted = FALSE
    /\ uiInflight = <<>>
    /\ uiTimers = {}
    /\ uiHealth = {}
    /\ uiInstGen = 0
    /\ uiIssued = 0
    /\ uiShown = 0
    /\ uiLast = NoOutcome
    /\ uiData = 0
    /\ backendOnline = FALSE
    /\ logs = <<>>
    /\ logStorage = [set |-> FALSE, items |-> <<>>]
    /\ logNextId = 1
    /\ logAdds = 0
    /\ logOpen = FALSE
    /\ calStorage = [set |-> FALSE, obj |-> [k \in StorageKeys |-> NoValue]]
    /\ selectedChannel = 0
    /\ calOpen = FALSE
    /\ baseline = NoValue
    /\ preview = NoValue
    /\ currentSession = FALSE
    /\ currentTrial = NoTrial
    /\ isTrialActive = FALSE
    /\ trialStartTime = NoValue
    /\ recentTrials = 0
    /\ trialsCreated = 0
    /\ loading = "none"
    /\ pending = {}
    /\ awaiting = [n \in SidebarActions |-> "none"]
    /\ mvcRequest = NoRequest
    /\ clinAlert = "none"
    /\ gwLink = "down"
    /\ gwExpected = NoSeq
    /\ gwLastSeq = NoSeq
    /\ gwGaps = <<>>
    /\ gwBatch = 0
    /\ gwAge = 0
    /\ gwPosts = 0
    /\ gwLastPost = NoPost
    /\ gwFrames = 0
    /\ gwNotifies = 0
    /\ skPc = "boot"
    /\ skClock = <<0, 0>>
    /\ skSetupAt = <<0, 0>>
    /\ nextSampleTime = <<0, 0>>
    /\ firstTs = <<0, 0>>
    /\ firstSample = TRUE
    /\ skTaken = 0
    /\ skTakenAt = <<0, 0>>
    /\ skRow = [rel |-> <<0, 0>>, raw |-> 0]
    /\ skLoops = 0
    /\ scanPc = "idle"
    /\ scanAddr = 0
    /\ scanProbed = <<>>
    /\ scanLogged = <<>>
    /\ scanFound = 0
    /\ scanWarned = FALSE
    /\ bioMounted = FALSE
    /\ bioMvc = NoValue
    /\ bioZone = [min |-> 20, max |-> 80]
    /\ bioSamples = <<>>
    /\ bioInZone = FALSE

----------------------------------------------------------------------------
(* Device clock *)

\* The wait of ble_emg_start, vTaskDelay(pdMS_TO_TICKS(100)), in
\* milliseconds.
BLE_SETTLE_MS == 100

\* vTaskDelay(pdMS_TO_TICKS(5)) in i2c_bus_idle_check (main.c:87).
BUS_SETTLE_US == 5000

\* The tick interrupt, in a run of `limit` clock steps: time advances and a
\* task blocked in vTaskDelay becomes ready when its delay has expired: the
\* acquisition loop (1 ms) at every step, the caller of ble_emg_start
\* 100 ms after it blocked, and the acquisition task waiting for the bus to
\* settle inside ads1115_init (5 ms) at the first step that is at least as
\* long as its wait.
Tick(limit) ==
    /\ now < limit * TickUs
    /\ now' = now + TickUs
    /\ acqPc' = IF acqPc = "delay" THEN "run" ELSE acqPc
    /\ adsInitPc' = IF /\ acqPc = "init"
                       /\ adsInitPc = "settle"
                       /\ TickUs >= BUS_SETTLE_US
                    THEN "probe" ELSE adsInitPc
    /\ bleState' = IF bleState = "settle" /\ now' >= bleWake
                   THEN "hci" ELSE bleState
    /\ UNCHANGED <<mainVars, s_emg_queue, nProduced, rawDropped, procVars,
                   streamVars, bleWake, link, linkHandle, evt, epoch,
                   s_conn_handle, s_val_handle, s_notify_enabled, notifyVars>>
    /\ UNCHANGED <<rmsVars, encVars, appVars, i2cCfg, adcReg, s_gain,
                   s_lsb_volts, adcReady, adsAttempts, pgaPc, pgaArg, pgaCfg,
                   adcOverlap, adcCall>>

----------------------------------------------------------------------------
(* Startup *)

\* emg_acq_start(): create the raw queue if missing, create the task.
\* app_main(): calls emg_acq_start() and enters the heartbeat loop.
AppMain ==
    /\ mainPc = "boot"
    /\ s_emg_queue' = IF s_emg_queue.h THEN s_emg_queue ELSE QueueCreate
    /\ acqPc' = "init"
    /\ mainStarted' = Append(mainStarted, "acq")
    /\ mainPc' = "heartbeat"
    /\ UNCHANGED <<now, nProduced, rawDropped, procVars, streamVars, gapVars,
                   notifyVars>>
    /\ UNCHANGED libVars

\* emg_proc_start(): create the processed queue if missing, create the task.
EmgProcStart ==
    /\ procPc = "none"
    /\ s_proc_queue' = IF s_proc_queue.h THEN s_proc_queue ELSE QueueCreate
    /\ procPc' = "ready"
    /\ UNCHANGED <<now, mainVars, acqVars, active, built, procDropped,
                   streamVars, gapVars, notifyVars>>
    /\ UNCHANGED libVars

\* A processing task that enters its loop whatever emg_get_queue() returned.
EmgProcTaskEntryAlwaysRuns ==
    /\ procPc = "ready"
    /\ procPc' = "run"
    /\ UNCHANGED <<now, mainVars, acqVars, s_proc_queue, active, built,
                   procDropped, streamVars, gapVars, notifyVars>>
    /\ UNCHANGED libVars

\* Prologue of emg_proc_task, run when the task is first scheduled: it reads
\* emg_get_queue() once and deletes itself on NULL.
EmgProcTaskEntry ==
    /\ procPc = "ready"
    /\ procPc' = IF s_emg_queue.h THEN "run" ELSE "dead"
    /\ UNCHANGED <<now, mainVars, acqVars, s_proc_queue, active, built,
                   procDropped, streamVars, gapVars, notifyVars>>
    /\ UNCHANGED libVars

\* Line 29: the columns of the header line.
HeaderColumns ==
    <<"time_us", "adc", "volts", "bp", "rect", "env", "rms", "active", "snr">>
\* Line 34: the conversions of the row's format string, in order.
RowFormat == <<"lld", "d", ".6f", ".6f", ".6f", ".6f", "d", ".3f">>
\* Lines 35-37: the arguments passed after the format string, in order.
RowArgs ==
    <<"ts_us", "raw", "volts", "bp", "rect", "env", "rms", "active", "snr">>

StreamHeader == [kind |-> "header", fields |-> HeaderColumns]

\* emg_stream_start() of the processed variant (part_015): create the task.
\* The two variants define the same functions; a firmware image holds one of
\* them.
EmgStreamStart ==
    /\ streamPc = "none"
    /\ streamPc' = "ready"
    /\ UNCHANGED <<now, mainVars, acqVars, procVars, streamQ, uartOut, gapVars,
                   notifyVars>>
    /\ UNCHANGED libVars

\* Prologue of emg_stream_task, run when the task is first scheduled:
\* uart_tx_init, header line, q = emg_get_proc_queue().
EmgStreamTaskEntry ==
    /\ streamPc = "ready"
    /\ streamPc' = "run"
    /\ uartOut' = Append(uartOut, StreamHeader)
    /\ streamQ' = s_proc_queue.h
    /\ UNCHANGED <<now, mainVars, acqVars, procVars, gapVars, notifyVars>>
    /\ UNCHANGED libVars

\* The raw variant (part_014).  Line 22: the columns of its header line;
\* line 27: the conversions of its row and the arguments they print.
RawHeaderColumns == <<"time_us", "adc", "volts">>
RawRowFields ==
    <<[conv |-> "lld", arg |-> "ts_us"], [conv |-> "d", arg |-> "raw"],
      [conv |-> ".6f", arg |-> "volts"]>>

\* emg_stream_start() of the raw variant: create the task.
EmgRawStreamStart ==
    /\ streamPc = "none"
    /\ streamPc' = "raw_ready"
    /\ UNCHANGED <<now, mainVars, acqVars, procVars, streamQ, uartOut, gapVars,
                   notifyVars>>
    /\ UNCHANGED libVars

\* Prologue of the raw emg_stream_task: uart_tx_init, header line,
\* q = emg_get_queue().
EmgRawStreamTaskEntry ==
    /\ streamPc = "raw_ready"
    /\ streamPc' = "raw_run"
    /\ uartOut' = Append(uartOut,
                         [kind |-> "header", fields |-> RawHeaderColumns])
    /\ streamQ' = s_emg_queue.h
    /\ UNCHANGED <<now, mainVars, acqVars, procVars, gapVars, notifyVars>>
    /\ UNCHANGED libVars

\* One iteration of the raw task: blocking receive of one sample from the
\* raw queue, one CSV row.
RawStreamStep ==
    /\ streamPc = "raw_run"
    /\ streamQ
    /\ Len(s_emg_queue.items) > 0
    /\ uartOut' = Append(uartOut,
                         [kind |-> "raw_row", p |-> Head(s_emg_queue.items),
                          fields |-> RawRowFields])
    /\ s_emg_queue' = [s_emg_queue EXCEPT !.items = Tail(@)]
    /\ UNCHANGED <<now, mainVars, acqPc, nProduced, rawDropped, procVars,
                   streamPc, streamQ, gapVars, notifyVars>>
    /\ UNCHANGED libVars

----------------------------------------------------------------------------
(* ADS1115 bring-up (main.c, ads1115_init): one step per blocking call *)

\* ads1115_init returns ret: the attempts made, the word sent and the word
\* read back go to the caller's log.
AdsInitReturns(ret, attempts, written, readback) ==
    /\ adsInitPc' = "idle"
    /\ adsAttempts' = <<>>
    /\ adcReady' = (adcReady \/ ret = "ok")
    /\ adcCall' = [NoCall EXCEPT !.op = "init", !.ret = ret,
                                 !.attempts = attempts,
                                 !.written = written,
                                 !.readback = readback]

\* What the steps of ads1115_init leave alone.  When the caller is the
\* acquisition task (task_acq.c:47-51) and the step returns from the call,
\* the task enters its loop or deletes itself.
AdsInitFrame ==
    /\ acqPc' = IF acqPc = "init" /\ adsInitPc' = "idle"
                THEN (IF adcCall'.ret = "ok" THEN "run" ELSE "dead")
                ELSE acqPc
    /\ UNCHANGED <<now, mainVars, s_emg_queue, nProduced, rawDropped, procVars,
                   streamVars, gapVars, notifyVars, rmsVars, encVars, appVars,
                   s_gain, pgaPc, pgaArg, pgaCfg>>

\* The board of a run: the bus configurations on which the converter can
\* answer a probe.  On such a configuration a probe is answered or not
\* (the converter may be absent or the transaction may fail); on any other
\* it is never answered.
AnyWiring == {"primary", "swapped", "slow"}
PrimaryWiring == {"primary"}
ProbeOutcomes(k, wired) ==
    IF BusConfigs[k] \in wired THEN BOOLEAN ELSE {FALSE}

\* ads1115_init() up to its first block (lines 296-304): i2c_reinit on the
\* primary pins (lines 61-75).  i2c_param_config sets the port up for the
\* primary pins or fails; i2c_driver_install then fails when the port has a
\* driver already (an earlier call left one) and may fail otherwise.  On a
\* failure the call returns; otherwise the driver is installed and the
\* caller waits for the transaction of i2c_sanity_check
\* (i2c_master_cmd_begin, line 102).
i2c_reinit_primary(configured, installed) ==
    /\ IF configured /\ installed /\ i2cCfg = "none"
       THEN /\ i2cCfg' = "primary"
            /\ adsInitPc' = "sanity"
            /\ adsAttempts' = <<>>
            /\ adcOverlap' = (adcOverlap \/ pgaPc # "idle")
            /\ UNCHANGED <<adcReady, adcCall>>
       ELSE /\ AdsInitReturns("fail", <<Attempt("primary", FALSE, FALSE)>>,
                              0, 0)
            /\ i2cCfg' = IF configured /\ i2cCfg # "none" THEN "primary"
                         ELSE i2cCfg
            /\ UNCHANGED adcOverlap
    /\ UNCHANGED <<adcReg, s_lsb_volts>>

\* ads1115_init() called on its own.
AdsInit ==
    /\ adsInitPc = "idle"
    /\ \E configured \in BOOLEAN, installed \in BOOLEAN :
         i2c_reinit_primary(configured, installed)
    /\ AdsInitFrame

\* The sanity transaction ends (lines 102-113); i2c_bus_idle_check sets the
\* pins up and waits 5 ms (line 87).
AdsInitSanity ==
    /\ adsInitPc = "sanity"
    /\ adsInitPc' = "settle"
    /\ UNCHANGED <<i2cCfg, adcReg, s_lsb_volts, adcReady, adsAttempts,
                   adcOverlap, adcCall>>
    /\ AdsInitFrame

\* The wait ends (lines 88-90, 310-317): the levels are logged and the
\* caller waits for the transaction of ads1115_probe (line 250).  For the
\* acquisition task the wait ends with the clock (Tick).
AdsInitSettle ==
    /\ adsInitPc = "settle"
    /\ acqPc # "init"
    /\ adsInitPc' = "probe"
    /\ UNCHANGED <<i2cCfg, adcReg, s_lsb_volts, adcReady, adsAttempts,
                   adcOverlap, adcCall>>
    /\ AdsInitFrame

\* i2c_driver_delete and i2c_reinit for the configuration cfg (lines
\* 327-332, 341-347): installed, the caller waits in the diagnostics of the
\* new configuration; not installed, the call returns with no driver left.
AdsInitSwitch(cfg, attempts) ==
    \E ok \in BOOLEAN :
        IF ok
        THEN /\ i2cCfg' = cfg
             /\ adsInitPc' = "scan"
             /\ adsAttempts' = attempts
             /\ UNCHANGED <<adcReady, adcCall>>
        ELSE /\ i2cCfg' = "none"
             /\ AdsInitReturns("fail",
                                Append(attempts, Attempt(cfg, FALSE, FALSE)),
                                0, 0)

\* The transaction of ads1115_probe ends (lines 250-257, 317-359).  Answered,
\* the caller builds the configuration word and waits for its write (line
\* 380).  Unanswered on the primary pins, the caller waits in
\* ads1115_probe_addr_variants and i2c_scan_bus (lines 320-324); unanswered
\* on the swapped pins, it installs the slow configuration; unanswered on
\* that one, the call returns the error.  wired: the board of the run.
AdsInitProbe(wired) ==
    /\ adsInitPc = "probe"
    /\ \E ok \in ProbeOutcomes(Len(adsAttempts) + 1, wired) :
         LET k == Len(adsAttempts) + 1
             answered == ok /\ i2cCfg # "none"
             attempts == Append(adsAttempts,
                                Attempt(BusConfigs[k], TRUE, answered))
         IN IF answered
            THEN /\ adsInitPc' = "write"
                 /\ adsAttempts' = attempts
                 /\ UNCHANGED <<i2cCfg, adcReady, adcCall>>
            ELSE IF InitLadder(k) = "none"
            THEN /\ AdsInitReturns("fail", attempts, 0, 0)
                 /\ UNCHANGED i2cCfg
            ELSE IF k = 1
            THEN /\ adsInitPc' = "diag"
                 /\ adsAttempts' = attempts
                 /\ UNCHANGED <<i2cCfg, adcReady, adcCall>>
            ELSE AdsInitSwitch(InitLadder(k), attempts)
    /\ UNCHANGED <<adcReg, s_lsb_volts, adcOverlap>>
    /\ AdsInitFrame

\* The address-variant probes and the bus scan on the primary pins end
\* (lines 320-332): the caller installs the next configuration.
AdsInitDiag ==
    /\ adsInitPc = "diag"
    /\ AdsInitSwitch(InitLadder(Len(adsAttempts)), adsAttempts)
    /\ UNCHANGED <<adcReg, s_lsb_volts, adcOverlap>>
    /\ AdsInitFrame

\* The diagnostics of a fallback configuration end (i2c_scan_bus, line 336;
\* ads1115_probe_addr_variants and i2c_scan_bus, lines 349-350): the caller
\* waits for the transaction of ads1115_probe.
AdsInitScan ==
    /\ adsInitPc = "scan"
    /\ adsInitPc' = "probe"
    /\ UNCHANGED <<i2cCfg, adcReg, s_lsb_volts, adcReady, adsAttempts,
                   adcOverlap, adcCall>>
    /\ AdsInitFrame

\* The configuration write ends (lines 380-388): the device has latched the
\* word and the caller waits for the read-back, or the call returns the
\* error.
AdsInitWrite ==
    /\ adsInitPc = "write"
    /\ \E ok \in BOOLEAN :
         IF ok /\ i2cCfg # "none"
         THEN /\ adcReg' = RegFromBytes(ConfigBytes(DefaultConfig))
              /\ adsInitPc' = "readback"
              /\ UNCHANGED <<adsAttempts, adcReady, adcCall>>
         ELSE /\ AdsInitReturns("fail", adsAttempts, DefaultConfig, 0)
              /\ UNCHANGED adcReg
    /\ UNCHANGED <<i2cCfg, s_lsb_volts, adcOverlap>>
    /\ AdsInitFrame

\* The read-back ends (lines 388-394): the word read, if any, is logged, the
\* LSB is set to the one of the default range, and the call returns ESP_OK.
\* outcomes: whether the read-back transaction may succeed, fail or both.
AdsInitReadback(outcomes) ==
    /\ adsInitPc = "readback"
    /\ \E ok \in outcomes :
         AdsInitReturns("ok", adsAttempts, DefaultConfig,
                        IF ok /\ i2cCfg # "none" THEN adcReg ELSE 0)
    /\ s_lsb_volts' = pga_lsb_from_field(ADS1115_PGA_4V096)
    /\ UNCHANGED <<i2cCfg, adcReg, adcOverlap>>
    /\ AdsInitFrame

----------------------------------------------------------------------------
(* Acquisition task (task_acq.c) *)

\* Prologue of emg_acq_task (lines 46-51): ads1115_set_gain(1.0f), then
\* ads1115_init() up to its first block.  The task stays inside the call
\* (acqPc = "init", adsInitPc says where) until a step of the driver
\* returns; it enters its loop when the call returned ESP_OK and deletes
\* itself otherwise.
AcqInit ==
    /\ acqPc = "init"
    /\ adsInitPc = "idle"
    /\ s_gain' = ads1115_set_gain(100, s_gain)
    /\ \E configured \in BOOLEAN, installed \in BOOLEAN :
         i2c_reinit_primary(configured, installed)
    /\ acqPc' = IF adsInitPc' = "idle" THEN "dead" ELSE "init"
    /\ UNCHANGED <<now, mainVars, s_emg_queue, nProduced, rawDropped, procVars,
                   streamVars, gapVars, notifyVars>>
    /\ UNCHANGED <<rmsVars, encVars, appVars, pgaPc, pgaArg, pgaCfg>>

RawSample(ts, raw) ==
    [ts_us |-> ts, raw |-> raw, volts |-> ads1115_scale_to_volts(raw)]

\* The loop entered although the task deleted itself after a failed init.
AcqReadAfterFailedInit(codes) ==
    /\ acqPc \in {"run", "dead"}
    /\ nProduced < MaxSamples
    /\ \E readOk \in BOOLEAN, raw \in codes :
         IF readOk
         THEN /\ nProduced' = nProduced + 1
              /\ IF s_emg_queue.h
                 THEN /\ s_emg_queue' = QueueSend(s_emg_queue, RawSample(now, raw))
                      /\ rawDropped' = IF QueueHasRoom(s_emg_queue)
                                       THEN rawDropped ELSE rawDropped + 1
                 ELSE UNCHANGED <<s_emg_queue, rawDropped>>
         ELSE UNCHANGED <<nProduced, s_emg_queue, rawDropped>>
    /\ acqPc' = "delay"
    /\ UNCHANGED <<now, mainVars, procVars, streamVars, gapVars, notifyVars>>
    /\ UNCHANGED libVars

\* The loop with a task that deletes itself when a read fails.
AcqReadStopsOnFailure(codes) ==
    /\ acqPc = "run"
    /\ nProduced < MaxSamples
    /\ \E readOk \in BOOLEAN, raw \in codes :
         IF readOk
         THEN /\ nProduced' = nProduced + 1
              /\ acqPc' = "delay"
              /\ IF s_emg_queue.h
                 THEN /\ s_emg_queue' = QueueSend(s_emg_queue, RawSample(now, raw))
                      /\ rawDropped' = IF QueueHasRoom(s_emg_queue)
                                       THEN rawDropped ELSE rawDropped + 1
                 ELSE UNCHANGED <<s_emg_queue, rawDropped>>
         ELSE /\ acqPc' = "dead"
              /\ UNCHANGED <<nProduced, s_emg_queue, rawDropped>>
    /\ UNCHANGED <<now, mainVars, procVars, streamVars, gapVars, notifyVars>>
    /\ UNCHANGED libVars

\* One iteration of the acquisition loop: read, stamp, scale, send with no
\* wait, then vTaskDelay (the task blocks until the tick).  A failed read
\* sends nothing.  codes: the values the converter may return.
AcqRead(codes) ==
    /\ acqPc = "run"
    /\ nProduced < MaxSamples
    /\ \E readOk \in BOOLEAN, raw \in codes :
         IF readOk
         THEN /\ nProduced' = nProduced + 1
              /\ IF s_emg_queue.h
                 THEN /\ s_emg_queue' = QueueSend(s_emg_queue, RawSample(now, raw))
                      /\ rawDropped' = IF QueueHasRoom(s_emg_queue)
                                       THEN rawDropped ELSE rawDropped + 1
                 ELSE UNCHANGED <<s_emg_queue, rawDropped>>
         ELSE UNCHANGED <<nProduced, s_emg_queue, rawDropped>>
    /\ acqPc' = "delay"
    /\ UNCHANGED <<now, mainVars, procVars, streamVars, gapVars, notifyVars>>
    /\ UNCHANGED libVars

----------------------------------------------------------------------------
(* Processing task (task_proc.c, emg_proc_task) *)

\* Hysteresis: lines 132-133.
HysteresisNoBand(act, env) ==
    IF env >= THRESH_ON_UV THEN 1 ELSE 0

Hysteresis(act, env) ==
    IF act = 0 /\ env >= THRESH_ON_UV THEN 1
    ELSE IF act = 1 /\ env <= THRESH_OFF_UV THEN 0
    ELSE act

\* The packet built from one dequeued sample.  env is the output of the float
\* filter chain (bq_step, bq_step, |.|, lp1_step) for this sample.
PacketStaleVolts(s, env, act) ==
    [ts_us |-> s.ts_us, raw |-> s.raw, volts |-> 0, env |-> env,
     active |-> act]

Packet(s, env, act) ==
    [ts_us |-> s.ts_us, raw |-> s.raw, volts |-> s.volts, env |-> env,
     active |-> act]

\* One iteration of the processing loop: blocking receive of one sample,
\* build the packet, send it with no wait when the processed queue exists.
\* levels: the envelope values the filter chain may produce.
ProcStep(levels) ==
    /\ procPc = "run"
    /\ Len(s_emg_queue.items) > 0
    /\ \E env \in levels :
         LET s == Head(s_emg_queue.items)
             a == Hysteresis(active, env)
             p == Packet(s, env, a)
         IN /\ active' = a
            /\ built' = Append(built, p)
            /\ IF s_proc_queue.h
               THEN /\ s_proc_queue' = QueueSend(s_proc_queue, p)
                    /\ procDropped' = IF QueueHasRoom(s_proc_queue)
                                      THEN procDropped ELSE procDropped + 1
               ELSE UNCHANGED <<s_proc_queue, procDropped>>
    /\ s_emg_queue' = [s_emg_queue EXCEPT !.items = Tail(@)]
    /\ procPc' = "run"
    /\ UNCHANGED <<now, mainVars, acqPc, nProduced, rawDropped, streamVars,
                   gapVars, notifyVars>>
    /\ UNCHANGED libVars

----------------------------------------------------------------------------
(* UART streaming task (processed variant) *)

\* The first six conversions meet arguments of their own type.  The seventh
\* (%d) meets the double rms and the eighth (%.3f) the int active, and snr
\* is left over: what the two print is not defined by C.  Where integer and
\* floating-point arguments travel apart, %d takes the next integer
\* (active) and %.3f the next double (rms); where they share one argument
\* area the two fields show words of that area that are no member's value.
RowTails == {<<"active", "rms">>, <<"undefined", "undefined">>}

\* A row has one field per conversion of the format string; arg is the
\* packet member whose value the field shows.
StreamRow(p, tail) ==
    [kind |-> "row", p |-> p,
     fields |-> [i \in 1..Len(RowFormat) |->
                   [conv |-> RowFormat[i],
                    arg |-> IF i <= Len(RowFormat) - Len(tail)
                            THEN RowArgs[i]
                            ELSE tail[i - (Len(RowFormat) - Len(tail))]]]]

\* One iteration: blocking receive of one packet, one CSV row.  Which of
\* the undefined outcomes a row shows is fixed by the build: every row of a
\* run shows the same one.
StreamStep ==
    /\ streamPc = "run"
    /\ streamQ
    /\ Len(s_proc_queue.items) > 0
    /\ \E tail \in RowTails :
         LET row == StreamRow(Head(s_proc_queue.items), tail)
         IN /\ \A i \in 1..Len(uartOut) :
                  uartOut[i].kind = "row" => uartOut[i].fields = row.fields
            /\ uartOut' = Append(uartOut, row)
    /\ s_proc_queue' = [s_proc_queue EXCEPT !.items = Tail(@)]
    /\ UNCHANGED <<now, mainVars, acqVars, procPc, active, built, procDropped,
                   streamPc, streamQ, gapVars, notifyVars>>
    /\ UNCHANGED libVars

----------------------------------------------------------------------------
(* BLE peripheral (ble_emg.c part of task_proc.c) *)

\* The sub-stages of ble_emg_start that can fail, before and after its wait.
ControllerStages == {"controller_init", "controller_enable"}
HostStages == {"hci_init", "host_enable"}

\* ble_emg_start() up to its wait (lines 421-443): a failing controller
\* stage logs and returns; otherwise the caller blocks in vTaskDelay.
BleEmgStart ==
    /\ bleState = "off"
    /\ \E failAt \in {"none"} \cup ControllerStages :
         /\ bleState' = IF failAt = "none" THEN "settle" ELSE "failed"
         /\ bleWake' = IF failAt = "none" THEN now + BLE_SETTLE_MS * 1000
                       ELSE bleWake
    /\ UNCHANGED <<now, mainVars, acqVars, procVars, streamVars, link,
                   linkHandle, evt, epoch, s_conn_handle, s_val_handle,
                   s_notify_enabled, notifyVars>>
    /\ UNCHANGED libVars

\* ble_emg_start() after its wait (lines 445-475): a failing host stage logs
\* and returns; otherwise the host task and the notify task are created.
BleEmgStartResume ==
    /\ bleState = "hci"
    /\ \E failAt \in {"none"} \cup HostStages :
         IF failAt = "none"
         THEN /\ bleState' = "started"
              /\ notifyPc' = "ready"
         ELSE /\ bleState' = "failed"
              /\ UNCHANGED notifyPc
    /\ UNCHANGED <<now, mainVars, acqVars, procVars, streamVars, bleWake,
                   link, linkHandle, evt, epoch, s_conn_handle, s_val_handle,
                   s_notify_enabled, s_seq, notifyQ, last_send_us, pkt,
                   frames>>
    /\ UNCHANGED libVars

\* Prologue of ble_notify_task, run when the task is first scheduled: it
\* reads emg_get_proc_queue() once (line 314).
NotifyTaskEntry ==
    /\ notifyPc = "ready"
    /\ notifyPc' = "recv"
    /\ notifyQ' = s_proc_queue.h
    /\ UNCHANGED <<now, mainVars, acqVars, procVars, streamVars, gapVars,
                   s_seq, last_send_us, pkt, frames>>
    /\ UNCHANGED libVars

\* Return codes of ble_gap_adv_start(): 0 is success, 6 (BLE_HS_ENOMEM)
\* stands for any failure.
AdvResults == {0, 6}

\* ble_gap_adv_start() returning rc, from a state in which the controller
\* neither advertises nor holds a connection: the controller advertises
\* when the call succeeds and is left as it was when the call fails.
AdvStart(l, rc) == IF rc = 0 /\ l \in {"off", "idle"} THEN "adv" ELSE l

\* on_ble_sync(): register the service (the stack fills s_val_handle when it
\* accepts the registration) and start advertising; a failure of
\* ble_gap_adv_start is logged (lines 408-411) and nothing else is done.
OnBleSync ==
    /\ bleState = "started"
    /\ bleState' = "synced"
    /\ \E regOk \in BOOLEAN :
         s_val_handle' = IF regOk THEN TelemetryValHandle ELSE 0
    /\ \E rc \in AdvResults : link' = AdvStart(link, rc)
    /\ UNCHANGED <<now, mainVars, acqVars, procVars, streamVars, bleWake,
                   linkHandle, evt, epoch, s_conn_handle, s_notify_enabled,
                   notifyVars>>
    /\ UNCHANGED libVars

ConnectEvt(status, h) ==
    [type |-> "connect", status |-> status, conn_handle |-> h,
     attr_handle |-> 0, cur_notify |-> FALSE]
DisconnectEvt ==
    [type |-> "disconnect", status |-> 0, conn_handle |-> 0,
     attr_handle |-> 0, cur_notify |-> FALSE]
SubscribeEvt(attr, cur) ==
    [type |-> "subscribe", status |-> 0, conn_handle |-> 0,
     attr_handle |-> attr, cur_notify |-> cur]

\* Connection attempt statuses: 0 is success, 13 stands for any failure.
ConnStatuses == {0, 13}

\* A central answers the advertisement.  The controller stops advertising;
\* the attempt succeeds (a handle is assigned) or fails.
CentralConnect ==
    /\ link = "adv"
    /\ evt = NoEvt
    /\ \E status \in ConnStatuses, h \in ConnHandles :
         /\ evt' = ConnectEvt(status, h)
         /\ IF status = 0
            THEN /\ epoch < MaxEpochs
                 /\ link' = "conn"
                 /\ linkHandle' = h
                 /\ epoch' = epoch + 1
            ELSE /\ link' = "idle"
                 /\ UNCHANGED <<linkHandle, epoch>>
    /\ UNCHANGED <<now, mainVars, acqVars, procVars, streamVars, bleState, bleWake,
                   s_conn_handle, s_val_handle, s_notify_enabled, notifyVars>>
    /\ UNCHANGED libVars

\* Attributes a central can write a CCCD for.
SubscribableAttrs ==
    IF s_val_handle # 0 THEN {s_val_handle, OtherAttrHandle}
    ELSE {OtherAttrHandle}

\* The connected central writes a client configuration descriptor.
CentralSubscribe ==
    /\ link = "conn"
    /\ evt = NoEvt
    /\ \E attr \in SubscribableAttrs, cur \in BOOLEAN :
         evt' = SubscribeEvt(attr, cur)
    /\ UNCHANGED <<now, mainVars, acqVars, procVars, streamVars, bleState,
                   bleWake, link,
                   linkHandle, epoch, s_conn_handle, s_val_handle,
                   s_notify_enabled, notifyVars>>
    /\ UNCHANGED libVars

\* The link is lost (or the central disconnects).
LinkLost ==
    /\ link = "conn"
    /\ evt = NoEvt
    /\ link' = "idle"
    /\ evt' = DisconnectEvt
    /\ UNCHANGED <<now, mainVars, acqVars, procVars, streamVars, bleState, bleWake,
                   linkHandle, epoch, s_conn_handle, s_val_handle,
                   s_notify_enabled, notifyVars>>
    /\ UNCHANGED libVars

\* gap_event(), BLE_GAP_EVENT_CONNECT: lines 275-284.  The result rc of
\* ble_gap_adv_start (line 282) is discarded.
OnConnectHandle(e, h) == IF e.status = 0 THEN e.conn_handle ELSE h
OnConnectLink(e, l, rc) == IF e.status = 0 THEN l ELSE AdvStart(l, rc)

\* gap_event(), BLE_GAP_EVENT_DISCONNECT: lines 288-295.  The result rc of
\* ble_gap_adv_start (line 293) is discarded.
OnDisconnectLink(l, rc) == AdvStart(l, rc)

\* A subscribe handler that does not look at the attribute handle.
OnSubscribeAnyAttr(e, enabled) == e.cur_notify

\* gap_event(), BLE_GAP_EVENT_SUBSCRIBE: lines 296-301.
OnSubscribe(e, enabled) ==
    IF e.attr_handle = s_val_handle THEN e.cur_notify ELSE enabled

\* The host task delivers the pending event to gap_event().
GapEvent ==
    /\ evt # NoEvt
    /\ evt' = NoEvt
    /\ CASE evt.type = "connect" ->
              /\ s_conn_handle' = OnConnectHandle(evt, s_conn_handle)
              /\ \E rc \in AdvResults : link' = OnConnectLink(evt, link, rc)
              /\ UNCHANGED s_notify_enabled
         [] evt.type = "disconnect" ->
              /\ s_conn_handle' = 0
              /\ s_notify_enabled' = FALSE
              /\ \E rc \in AdvResults : link' = OnDisconnectLink(link, rc)
         [] evt.type = "subscribe" ->
              /\ s_notify_enabled' = OnSubscribe(evt, s_notify_enabled)
              /\ UNCHANGED <<s_conn_handle, link>>
    /\ UNCHANGED <<now, mainVars, acqVars, procVars, streamVars, bleState, bleWake,
                   linkHandle, epoch, s_val_handle, notifyVars>>
    /\ UNCHANGED libVars

----------------------------------------------------------------------------
(* Notification task (ble_notify_task) *)

\* interval_us = (int64_t)BLE_STREAM_INTERVAL_MS * 1000
interval_us == BLE_STREAM_INTERVAL_MS * 1000

\* Line 321: drop while unsubscribed or without handles.
NotReady == ~s_notify_enabled \/ s_conn_handle = 0 \/ s_val_handle = 0

\* Line 325: rate limit.
RateLimitedNever(t, last) == FALSE

RateLimited(t, last) == t - last < interval_us

\* Line 351: uint16_t seq = s_seq++.
NextSeq(q) == (q + 1) % SEQ_MOD

\* Lines 338-359: the frame built from packet p at time t.  ts_ms is
\* (uint32_t)(ts_us / 1000); model times stay below 2^31.  t, built_in and
\* epoch are not frame bytes: the clock value read at the dequeue, the
\* connection count when the frame was built and when it was delivered.
BuildFrame(p, seq, t) ==
    [seq |-> seq, ts_ms |-> p.ts_us \div 1000,
     env_mv |-> ClampI16(LrintDiv1000(p.env)),
     active |-> IF p.active # 0 THEN 1 ELSE 0, t |-> t, built_in |-> epoch,
     epoch |-> 0]

\* First half of one loop iteration: blocking receive, read the clock, the
\* two drop checks, build the frame and take a sequence number.
NotifyRecv ==
    /\ notifyPc = "recv"
    /\ notifyQ
    /\ Len(s_proc_queue.items) > 0
    /\ s_proc_queue' = [s_proc_queue EXCEPT !.items = Tail(@)]
    /\ IF NotReady \/ RateLimited(now, last_send_us)
       THEN UNCHANGED <<s_seq, notifyPc, pkt>>
       ELSE /\ pkt' = BuildFrame(Head(s_proc_queue.items), s_seq, now)
            /\ s_seq' = NextSeq(s_seq)
            /\ notifyPc' = "send"
    /\ UNCHANGED <<now, mainVars, acqVars, procPc, active, built, procDropped,
                   streamVars, gapVars, notifyQ, last_send_us, frames>>
    /\ UNCHANGED libVars

\* ble_gatts_notify_custom(conn, val, om) reaches the central when conn is
\* the handle of the live connection; otherwise it returns an error, which
\* the task ignores.
NotifyDelivered(conn) == link = "conn" /\ conn = linkHandle

\* Second half: ble_hs_mbuf_from_flat (may return NULL), the notify call
\* with the globals as they are now, last_send_us = now (the value read at
\* the receive).
NotifySend ==
    /\ notifyPc = "send"
    /\ \E allocOk \in BOOLEAN :
         IF allocOk
         THEN /\ frames' = IF NotifyDelivered(s_conn_handle)
                           THEN Append(frames, [pkt EXCEPT !.epoch = epoch])
                           ELSE frames
              /\ last_send_us' = pkt.t
         ELSE UNCHANGED <<frames, last_send_us>>
    /\ notifyPc' = "recv"
    /\ pkt' = NoPkt
    /\ UNCHANGED <<now, mainVars, acqVars, procVars, streamVars, gapVars,
                   s_seq, notifyQ>>
    /\ UNCHANGED libVars

----------------------------------------------------------------------------
(* Specifications *)

\* The processing pipeline: startup, acquisition on any board, processing
\* and the two variants of the UART task.  The wireless side is not started.
Next ==
    \/ Tick(MaxTicks)
    \/ AppMain
    \/ EmgProcStart
    \/ EmgProcTaskEntry
    \/ EmgStreamStart
    \/ EmgStreamTaskEntry
    \/ EmgRawStreamStart
    \/ EmgRawStreamTaskEntry
    \/ RawStreamStep
    \/ AcqInit
    \/ AdsInitSanity
    \/ AdsInitProbe(AnyWiring)
    \/ AdsInitDiag
    \/ AdsInitScan
    \/ AdsInitWrite
    \/ AdsInitReadback(BOOLEAN)
    \/ AcqRead(RawCodes)
    \/ ProcStep(EnvLevels)
    \/ StreamStep

Spec == Init /\ [][Next]_vars

\* The pipeline with the wireless side started as well and no central: the
\* tasks start in any order, the sample values are fixed and the run is one
\* clock step longer, so that the notify task, which starts 100 ms after
\* ble_emg_start, can have started before the acquisition task has left
\* ads1115_init.
StartOrderNext ==
    \/ Tick(MaxTicks + 1)
    \/ AppMain
    \/ EmgProcStart
    \/ EmgProcTaskEntry
    \/ EmgStreamStart
    \/ EmgStreamTaskEntry
    \/ EmgRawStreamStart
    \/ EmgRawStreamTaskEntry
    \/ RawStreamStep
    \/ BleEmgStart
    \/ BleEmgStartResume
    \/ NotifyTaskEntry
    \/ AcqInit
    \/ AdsInitSanity
    \/ AdsInitProbe(AnyWiring)
    \/ AdsInitDiag
    \/ AdsInitScan
    \/ AdsInitWrite
    \/ AdsInitReadback(BOOLEAN)
    \/ AcqRead({5})
    \/ ProcStep({THRESH_ON_UV})
    \/ StreamStep
    \/ NotifyRecv

StartOrderSpec == Init /\ [][StartOrderNext]_vars

\* The telemetry path: the pipeline feeds the notify task while a central
\* connects, subscribes and disconnects.  The UART consumer is not started,
\* the sample values are fixed, and the board has the converter on the
\* primary pins with a read-back that answers.
BleNext ==
    \/ Tick(MaxBleTicks)
    \/ AppMain
    \/ EmgProcStart
    \/ EmgProcTaskEntry
    \/ BleEmgStart
    \/ BleEmgStartResume
    \/ NotifyTaskEntry
    \/ AcqInit
    \/ AdsInitSanity
    \/ AdsInitProbe(PrimaryWiring)
    \/ AdsInitDiag
    \/ AdsInitScan
    \/ AdsInitWrite
    \/ AdsInitReadback({TRUE})
    \/ AcqRead({5})
    \/ ProcStep({THRESH_ON_UV})
    \/ OnBleSync
    \/ CentralConnect
    \/ CentralSubscribe
    \/ LinkLost
    \/ GapEvent
    \/ NotifyRecv
    \/ NotifySend

BleSpec == Init /\ [][BleNext]_vars

\* The connection state machine alone, with the host task scheduled fairly:
\* a pending GAP event is eventually delivered to gap_event().
GapNext ==
    \/ Tick(MaxTicks)
    \/ BleEmgStart
    \/ BleEmgStartResume
    \/ OnBleSync
    \/ CentralConnect
    \/ CentralSubscribe
    \/ LinkLost
    \/ GapEvent

GapFairSpec == Init /\ [][GapNext]_vars /\ WF_vars(GapEvent)

----------------------------------------------------------------------------
(* Sliding RMS driven on its own *)

\* Band-passed sample values (integer-valued floats): a quiet level and a
\* spike.
RmsQuiet == 1
RmsSamples == {RmsQuiet, 4096}

\* Values the n-th sample (counted from 0) may take.
RmsSampleAt(n) ==
    IF n < RmsFree \/ n >= RMS_N - 1 THEN RmsSamples ELSE {RmsQuiet}

\* emg_proc_task prologue: rms_init(&rms, rms_storage, RMS_N).
RmsInit ==
    /\ rms = NoWindow
    /\ rms' = rms_init(RMS_N)
    /\ rmsIn' = <<>>
    /\ UNCHANGED <<pipeVars, encVars, adcVars, appVars>>

\* p.rms = rms_step(&rms, bp) for one band-passed sample.
RmsFeed ==
    /\ rms.cap > 0
    /\ Len(rmsIn) < RmsMaxFed
    /\ \E x \in RmsSampleAt(Len(rmsIn)) :
         /\ rms' = rms_step(rms, x)
         /\ rmsIn' = Append(rmsIn, x)
    /\ UNCHANGED <<pipeVars, encVars, adcVars, appVars>>

RmsNext ==
    \/ RmsInit
    \/ RmsFeed

RmsSpec == Init /\ [][RmsNext]_vars

----------------------------------------------------------------------------
(* Frame encoding driven on its own *)

\* Packet timestamps: 0, 1.999 ms, the last millisecond before the 32-bit
\* millisecond count wraps (2^32 - 1 ms), and 2^32 + 5 ms.
EncTimes == {[hi |-> 0, lo |-> 0], [hi |-> 0, lo |-> 1999],
             [hi |-> 65535, lo |-> 65535999], [hi |-> 65536, lo |-> 5000]}
\* Envelope and RMS values in microvolts: on both sides of both int16 limits
\* in millivolts, halves of a millivolt, and values one microvolt from a
\* half where a float has few bits left below the millivolt.
EncVolts == {-40000000, -15999499, -1500, 0, 2500, 4091500, 32767499,
             40000000}
\* SNR values in thousandths.
EncSnrs == {-1000, 0, 20, 60, 1000, 4000, 5000}
EncActive == {0, 1}
EncSeqs == {0, 258, 65535}

\* One frame build of ble_notify_task for a packet p and sequence number;
\* a run builds one frame.
EncodePacket ==
    /\ encOut = <<>>
    /\ \E ts \in EncTimes, env \in EncVolts, r \in EncVolts, a \in EncActive,
          snr \in EncSnrs, seq \in EncSeqs :
         LET p == [ts |-> ts, env |-> env, rms |-> r, active |-> a,
                   snr |-> snr, seq |-> seq]
         IN /\ encIn' = p
            /\ encOut' = EncodeFrame(p, seq)
    /\ UNCHANGED <<pipeVars, rmsVars, adcVars, appVars>>

EncNext == EncodePacket

EncSpec == Init /\ [][EncNext]_vars

----------------------------------------------------------------------------
(* ADS1115 driver driven on its own *)

\* Values passed to ads1115_set_pga: the six ranges, the two other codes of
\* the gain field, a range with a bit outside the field, and a stray value.
PgaRequests ==
    {ADS1115_PGA_6V144, ADS1115_PGA_4V096, ADS1115_PGA_2V048,
     ADS1115_PGA_1V024, ADS1115_PGA_0V512, ADS1115_PGA_0V256,
     6 * 512, 7 * 512, ADS1115_PGA_2V048 + 1, 1}
\* Values passed to ads1115_set_gain, in hundredths.
GainRequests == {-100, 0, 50, 100, 10000, 10001}

\* What the steps of ads1115_set_pga leave alone.
AdsSetPgaFrame == UNCHANGED <<pipeVars, rmsVars, encVars, appVars, i2cCfg,
                              s_gain, adcReady, adsInitPc, adsAttempts>>

\* ads1115_set_pga(f) up to its first block (lines 206-211): an invalid
\* field is rejected at once, otherwise the caller waits for the register
\* read of ads1115_read_config (line 240).
AdsSetPga ==
    /\ pgaPc = "idle"
    /\ \E f \in PgaRequests :
         IF pga_field_valid(f)
         THEN /\ pgaPc' = "read"
              /\ pgaArg' = f
              /\ adcOverlap' = (adcOverlap \/ adsInitPc # "idle")
              /\ UNCHANGED <<pgaCfg, adcCall>>
         ELSE /\ pgaPc' = "idle"
              /\ adcCall' = [NoCall EXCEPT !.op = "set_pga", !.arg = f,
                                           !.ret = "invalid_arg"]
              /\ UNCHANGED <<pgaArg, pgaCfg, adcOverlap>>
    /\ UNCHANGED <<adcReg, s_lsb_volts>>
    /\ AdsSetPgaFrame

\* The register read ends (lines 211-216, 240-243): on an error the call
\* returns it; otherwise the gain field of the word read is replaced and
\* the caller waits for the write of the new word.  No transaction succeeds
\* without an installed driver.
AdsSetPgaRead ==
    /\ pgaPc = "read"
    /\ \E ok \in BOOLEAN :
         IF ok /\ i2cCfg # "none"
         THEN /\ pgaCfg' = BitOr(BitAnd(adcReg, 65535 - ADS1115_PGA_MASK),
                                 pgaArg)
              /\ pgaPc' = "write"
              /\ UNCHANGED <<pgaArg, adcCall>>
         ELSE /\ pgaPc' = "idle"
              /\ pgaArg' = 0
              /\ pgaCfg' = 0
              /\ adcCall' = [NoCall EXCEPT !.op = "set_pga", !.arg = pgaArg,
                                           !.ret = "fail", !.busOps = 1]
    /\ UNCHANGED <<adcReg, s_lsb_volts, adcOverlap>>
    /\ AdsSetPgaFrame

\* The register write ends (lines 216-223): the device has latched the word
\* and the LSB follows the field, or the call returns the error.
AdsSetPgaWrite ==
    /\ pgaPc = "write"
    /\ \E ok \in BOOLEAN :
         LET r == ads1115_set_pga(pgaArg, pgaCfg, ok /\ i2cCfg # "none")
         IN /\ adcReg' = r.reg
            /\ s_lsb_volts' = r.lsb
            /\ adcCall' = [NoCall EXCEPT !.op = "set_pga", !.arg = pgaArg,
                                         !.ret = r.ret, !.busOps = 2]
    /\ pgaPc' = "idle"
    /\ pgaArg' = 0
    /\ pgaCfg' = 0
    /\ UNCHANGED adcOverlap
    /\ AdsSetPgaFrame

AdsSetGain ==
    /\ \E g \in GainRequests :
         /\ s_gain' = ads1115_set_gain(g, s_gain)
         /\ adcCall' = [NoCall EXCEPT !.op = "set_gain", !.arg = g]
    /\ UNCHANGED <<pipeVars, rmsVars, encVars, appVars, i2cCfg, adcReg,
                   s_lsb_volts, adcReady, adsInitPc, adsAttempts, pgaPc,
                   pgaArg, pgaCfg, adcOverlap>>

AdsScale ==
    /\ \E raw \in RawCodes :
         adcCall' = [NoCall EXCEPT !.op = "scale", !.arg = raw,
                                   !.volts = ads1115_scale_to_volts(raw)]
    /\ UNCHANGED <<pipeVars, rmsVars, encVars, appVars, i2cCfg, adcReg, s_gain,
                   s_lsb_volts, adcReady, adsInitPc, adsAttempts, pgaPc,
                   pgaArg, pgaCfg, adcOverlap>>

AdcNext ==
    \/ AdsInit
    \/ AdsInitSanity
    \/ AdsInitSettle
    \/ AdsInitProbe(AnyWiring)
    \/ AdsInitDiag
    \/ AdsInitScan
    \/ AdsInitWrite
    \/ AdsInitReadback(BOOLEAN)
    \/ AdsSetPga
    \/ AdsSetPgaRead
    \/ AdsSetPgaWrite
    \/ AdsSetGain
    \/ AdsScale

AdcSpec == Init /\ [][AdcNext]_vars

----------------------------------------------------------------------------
(* Dashboard pollers (ui/react) *)

\* The two implementations of useDeviceStore.pollLatest: "latest" is the one
\* of state/deviceStore.ts (a failed call runs checkHealth), "latestAlt" the
\* one of the store in part_006 (lines 73-88), which writes backendOnline
\* itself.
LatestPollers == {"latest", "latestAlt"}
\* pollLatest, Visualization.fetchRange, Dashboard.fetchRecent,
\* RealTimeBiofeedback's interval, Calibration.capture.
Pollers == LatestPollers
           \cup {"history", "dashboard", "biofeedback", "calibration"}
\* Pollers that issue a call at once when started (the others wait for the
\* first timer tick).
CallsOnStart == LatestPollers \cup {"history", "dashboard", "calibration"}
\* Pollers driven by setInterval (pollLatest re-arms itself with setTimeout
\* after each call).
IntervalDriven == {"history", "dashboard", "biofeedback", "calibration"}
\* Response payloads (0 stands for the empty result).
UiValues == {1}
\* Outcomes of the /health request: status 'ok', another status, rejected.
HealthOutcomes == {"ok", "degraded", "fail"}

\* The `active` flag captured by the call issued in session g is still set.
Live(g) == uiActive /\ g = uiGen

RemoveAt(q, i) == SubSeq(q, 1, i - 1) \o SubSeq(q, i + 1, Len(q))

\* A call issued by session g.
NewCall(g) == [gen |-> g, req |-> uiIssued + 1]

\* Start of a polling session: pollLatest() is called, or the component's
\* effect runs (mount, or Start pressed on the calibration page).  A
\* remounted component is a new instance and starts from empty state.
UiStart ==
    /\ ~uiActive
    /\ uiGen < MaxSessions
    /\ \E p \in Pollers :
         /\ uiPoller \in {"none", p}
         /\ p \in CallsOnStart =>
               (Len(uiInflight) < MaxInflight /\ uiIssued < MaxRequests)
         /\ uiPoller' = p
         /\ uiInflight' = IF p \in CallsOnStart
                          THEN Append(uiInflight, NewCall(uiGen + 1))
                          ELSE uiInflight
         /\ uiIssued' = IF p \in CallsOnStart THEN uiIssued + 1 ELSE uiIssued
         /\ uiData' = IF p \notin LatestPollers /\ ~uiMounted THEN 0
                       ELSE uiData
         /\ uiShown' = IF p \notin LatestPollers /\ ~uiMounted THEN 0
                        ELSE uiShown
    /\ uiGen' = uiGen + 1
    /\ uiActive' = TRUE
    /\ uiMounted' = TRUE
    /\ uiInstGen' = IF uiMounted THEN uiInstGen ELSE uiGen + 1
    /\ UNCHANGED <<notUi, uiTimers, uiHealth, uiLast, backendOnline>>

\* A setInterval tick of the running session issues a call.
UiTimer ==
    /\ uiActive
    /\ uiPoller \in IntervalDriven
    /\ Len(uiInflight) < MaxInflight
    /\ uiIssued < MaxRequests
    /\ uiInflight' = Append(uiInflight, NewCall(uiGen))
    /\ uiIssued' = uiIssued + 1
    /\ UNCHANGED <<notUi, uiPoller, uiGen, uiActive, uiMounted, uiTimers,
                   uiHealth, uiInstGen, uiShown, uiLast, uiData,
                   backendOnline>>

\* A setTimeout armed by pollLatest's tick fires: tick runs again and calls
\* api.emgLatest (tick does not look at the flag before the call).
UiTimeout ==
    /\ Len(uiInflight) < MaxInflight
    /\ uiIssued < MaxRequests
    /\ \E g \in uiTimers :
         /\ uiTimers' = uiTimers \ {g}
         /\ uiInflight' = Append(uiInflight, NewCall(g))
    /\ uiIssued' = uiIssued + 1
    /\ UNCHANGED <<notUi, uiPoller, uiGen, uiActive, uiMounted, uiHealth,
                   uiInstGen, uiShown, uiLast, uiData, backendOnline>>

\* The stop function returned by pollLatest (it only clears the flag), the
\* effect clean-up of a component (dependency change), Stop on the
\* calibration page: the flag is cleared and the interval removed; the
\* component stays displayed.
UiStop ==
    /\ uiActive
    /\ uiActive' = FALSE
    /\ UNCHANGED <<notUi, uiPoller, uiGen, uiMounted, uiInflight, uiTimers,
                   uiHealth, uiInstGen, uiIssued, uiShown, uiLast, uiData,
                   backendOnline>>

\* The component is removed: its effect clean-up runs and its state goes.
UiUnmount ==
    /\ uiPoller \in IntervalDriven
    /\ uiMounted
    /\ uiMounted' = FALSE
    /\ uiActive' = FALSE
    /\ UNCHANGED <<notUi, uiPoller, uiGen, uiInflight, uiTimers, uiHealth,
                   uiInstGen, uiIssued, uiShown, uiLast, uiData,
                   backendOnline>>

\* checkHealth (deviceStore.ts 22-30): online exactly when the status is
\* 'ok'; a rejected request marks the backend offline.
checkHealth(health) == health = "ok"

\* Whether the continuation of a call writes its outcome to the displayed
\* state.  A state setter of a removed component has no effect.
\* pollLatest (deviceStore.ts 33-45, part_006 lines 75-85)
LatestApplies(g, ok) == ok /\ Live(g)
\* backendOnline after a call of part_006's pollLatest completes (lines
\* 78-83): a success sets it when the flag is still set, a failure clears
\* it whether or not the poller still runs.
LatestAltOnline(g, ok, online) ==
    IF ok THEN (IF Live(g) THEN TRUE ELSE online) ELSE FALSE
\* Visualization.fetchRange, Dashboard.fetchRecent: a failed call counts as
\* an empty result
HistoryApplies(g, ok) == Live(g) /\ uiMounted
\* RealTimeBiofeedback (23-36)
BiofeedbackApplies(g, ok) == ok /\ Live(g) /\ uiMounted
\* Calibration.capture (23-30): setPreview without a flag check; the
\* setter is the one of the page instance whose effect issued the call.
CalibrationApplies(g, ok) == uiMounted /\ g >= uiInstGen

Applies(g, ok) ==
    CASE uiPoller \in LatestPollers -> LatestApplies(g, ok)
      [] uiPoller \in {"history", "dashboard"} -> HistoryApplies(g, ok)
      [] uiPoller = "biofeedback" -> BiofeedbackApplies(g, ok)
      [] uiPoller = "calibration" -> CalibrationApplies(g, ok)

\* Call number i in flight completes with payload v (ok) or fails.
\* pollLatest arms its next setTimeout after a success when its flag is set
\* (it returns before that otherwise).  After a failure the tick of
\* deviceStore.ts calls checkHealth and waits for the answer of the health
\* request; the tick of part_006 clears backendOnline and arms its next
\* setTimeout when its flag is set.
UiResolveAt(i, ok, v) ==
    /\ i \in 1..Len(uiInflight)
    /\ LET c == uiInflight[i]
           g == c.gen
           rearm == \/ uiPoller = "latest" /\ ok /\ Live(g)
                    \/ uiPoller = "latestAlt" /\ Live(g)
       IN /\ uiData' = IF Applies(g, ok) THEN (IF ok THEN v ELSE 0)
                       ELSE uiData
          /\ uiShown' = IF Applies(g, ok) THEN c.req ELSE uiShown
          /\ uiTimers' = IF rearm THEN uiTimers \cup {g} ELSE uiTimers
          /\ uiHealth' = IF uiPoller = "latest" /\ ~ok
                         THEN uiHealth \cup {c} ELSE uiHealth
          /\ uiLast' = [op |-> uiPoller, req |-> c.req, live |-> Live(g),
                        ok |-> ok, health |-> "none", rearmed |-> rearm]
          /\ backendOnline' = IF uiPoller = "latestAlt"
                               THEN LatestAltOnline(g, ok, backendOnline)
                               ELSE backendOnline
    /\ uiInflight' = RemoveAt(uiInflight, i)
    /\ UNCHANGED <<notUi, uiPoller, uiGen, uiActive, uiMounted, uiInstGen,
                   uiIssued>>

\* The health request of a failed pollLatest call is answered: checkHealth
\* sets backendOnline, then tick arms its next setTimeout when its flag is
\* set (deviceStore.ts 42-44).
UiHealthAnswer ==
    /\ \E c \in uiHealth, health \in HealthOutcomes :
         /\ uiHealth' = uiHealth \ {c}
         /\ backendOnline' = checkHealth(health)
         /\ uiTimers' = IF Live(c.gen) THEN uiTimers \cup {c.gen}
                        ELSE uiTimers
         /\ uiLast' = [op |-> "latest", req |-> c.req, live |-> Live(c.gen),
                       ok |-> FALSE, health |-> health,
                       rearmed |-> Live(c.gen)]
    /\ UNCHANGED <<notUi, uiPoller, uiGen, uiActive, uiMounted, uiInflight,
                   uiInstGen, uiIssued, uiShown, uiData>>

\* The periodic health check of the error banner (every 5 s).
UiCheckHealth ==
    /\ \E health \in HealthOutcomes :
         /\ backendOnline' = checkHealth(health)
         /\ uiLast' = [op |-> "health", req |-> 0, live |-> FALSE,
                       ok |-> FALSE, health |-> health, rearmed |-> FALSE]
    /\ UNCHANGED <<notUi, uiPoller, uiGen, uiActive, uiMounted, uiInflight,
                   uiTimers, uiHealth, uiInstGen, uiIssued, uiShown, uiData>>

UiResolve ==
    \E i \in 1..MaxInflight, ok \in BOOLEAN, v \in UiValues :
       UiResolveAt(i, ok, v)

UiNext ==
    \/ UiStart
    \/ UiTimer
    \/ UiTimeout
    \/ UiStop
    \/ UiUnmount
    \/ UiResolve
    \/ UiHealthAnswer
    \/ UiCheckHealth

UiSpec == Init /\ [][UiNext]_vars

----------------------------------------------------------------------------
(* Client-side log store (useLogStore) *)

\* persist keeps logs.slice(-1000).
LOG_KEEP == 1000
\* Entries added in one step: a single logInfo / logWarn / logError, or a
\* long run of them (only the last persist of a run is visible afterwards;
\* the writes of a run are all accepted or all refused).
LogBursts == {1, 997}

\* q.slice(-n)
SliceLast(q, n) == IF Len(q) <= n THEN q ELSE SubSeq(q, Len(q) - n + 1, Len(q))

\* loadPersisted(): the saved array, or [] when nothing was saved.
loadPersisted == IF ~logStorage.set THEN <<>> ELSE logStorage.items

\* persist(next): localStorage.setItem stores the last LOG_KEEP entries, or
\* throws (quota, storage disabled) and the catch leaves the storage as it
\* was.
persist(next, stored) ==
    IF stored THEN [set |-> TRUE, items |-> SliceLast(next, LOG_KEEP)]
    ELSE logStorage

\* The entries with ids from..to.
NewEntries(from, to) == [k \in 1..(to - from + 1) |-> from + k - 1]

\* The application is loaded: create() runs with logs: loadPersisted().
LogOpen ==
    /\ ~logOpen
    /\ logOpen' = TRUE
    /\ logs' = loadPersisted
    /\ UNCHANGED <<notLog, logStorage, logNextId, logAdds>>

\* add(level, message, context), n times: next = [...logs, item];
\* persist(next); logs = next.
LogAdd ==
    /\ logOpen
    /\ logAdds < MaxLogAdds
    /\ logAdds' = logAdds + 1
    /\ \E n \in LogBursts, stored \in BOOLEAN :
         /\ LET next == logs \o NewEntries(logNextId, logNextId + n - 1)
            IN /\ logStorage' = persist(next, stored)
               /\ logs' = next
         /\ logNextId' = logNextId + n
    /\ UNCHANGED <<notLog, logOpen>>

\* clear(): persist([]); logs = [].
LogClear ==
    /\ logOpen
    /\ \E stored \in BOOLEAN : logStorage' = persist(<<>>, stored)
    /\ logs' = <<>>
    /\ UNCHANGED <<notLog, logNextId, logAdds, logOpen>>

\* The page is closed or reloaded: the in-memory store goes.
LogClose ==
    /\ logOpen
    /\ logOpen' = FALSE
    /\ logs' = <<>>
    /\ UNCHANGED <<notLog, logStorage, logNextId, logAdds>>

LogNext ==
    \/ LogOpen
    \/ LogAdd
    \/ LogClear
    \/ LogClose

LogSpec == Init /\ [][LogNext]_vars

----------------------------------------------------------------------------
(* Baseline calibration page (Calibration.tsx) *)

\* RMS values a capture can produce, in units in which 1.5 x value is whole
\* (0: the history was empty).
CalValues == {0, 4}

\* Initial value of the baseline state: the saved object's entry for the
\* selected channel, null when the key or the entry is missing.
LoadBaseline(ch) ==
    IF ~calStorage.set THEN NoValue ELSE calStorage.obj[ChannelKey(ch)]

\* threshold = baseline != null ? baseline * 1.5 : null
threshold == IF baseline # NoValue THEN (baseline * 3) \div 2 ELSE NoValue

\* The page is opened: the state initialisers run.
CalOpen ==
    /\ ~calOpen
    /\ calOpen' = TRUE
    /\ baseline' = LoadBaseline(selectedChannel)
    /\ preview' = NoValue
    /\ UNCHANGED <<notCal, calStorage, selectedChannel>>

\* The page is left: its state goes.
CalClose ==
    /\ calOpen
    /\ calOpen' = FALSE
    /\ baseline' = NoValue
    /\ preview' = NoValue
    /\ UNCHANGED <<notCal, calStorage, selectedChannel>>

\* setChannel(ch), from any page.
SetChannel ==
    /\ \E ch \in Channels : selectedChannel' = ch
    /\ UNCHANGED <<notCal, calStorage, calOpen, baseline, preview>>

\* A capture completes: setPreview(rms(vals)).
CalCapture ==
    /\ calOpen
    /\ \E b \in CalValues : preview' = b
    /\ UNCHANGED <<notCal, calStorage, selectedChannel, calOpen, baseline>>

\* save(): nothing when preview is null; otherwise the baseline state and
\* the selected channel's entry of the saved object are set.
CalSave ==
    /\ calOpen
    /\ IF preview = NoValue
       THEN UNCHANGED <<calStorage, baseline>>
       ELSE /\ baseline' = preview
            /\ calStorage' =
                 [set |-> TRUE,
                  obj |-> [calStorage.obj EXCEPT
                             ![ChannelKey(selectedChannel)] = preview]]
    /\ UNCHANGED <<notCal, selectedChannel, calOpen, preview>>

CalNext ==
    \/ CalOpen
    \/ CalClose
    \/ SetChannel
    \/ CalCapture
    \/ CalSave

CalSpec == Init /\ [][CalNext]_vars

----------------------------------------------------------------------------
(* Clinical trial page (ClinicalDashboard, ActionSidebar) *)

\* MOCK_PATIENT.baselineMVC, in microvolts
BASELINE_MVC == 450
\* RMS values of history samples (s.rms ?? s.envelope ?? 0).
ClinRms == {0, 300, 500}
\* Histories returned for the preceding 3 seconds.
ClinHistories == {<<>>} \cup {<<a>> : a \in ClinRms}
                 \cup {<<a, b>> : a \in ClinRms, b \in ClinRms}

\* Math.max over the positive values of the samples; NoValue when there is
\* none.
MaxPositiveRms(samples) ==
    LET pos == {samples[k] : k \in 1..Len(samples)} \ {0}
    IN IF pos = {} THEN NoValue
       ELSE CHOOSE m \in pos : \A v \in pos : v <= m

\* The sidebar's buttons: all are disabled while an action is loading or no
\* session exists (and handleAction returns at once in those cases); Start
\* shows when no trial is active, Stop when one is; Capture MVC is disabled
\* while a trial is active.
SidebarFreeIgnoresLoading == currentSession

SidebarFree == currentSession /\ loading = "none"
StartEnabled == SidebarFree /\ ~isTrialActive
StopEnabled == SidebarFree /\ isTrialActive
CaptureMvcEnabled == SidebarFree /\ ~isTrialActive

\* handleAction, lines 25-27: setLoading(actionName), then the handler runs
\* up to its first await (at) or to its end ("returned").
Invoke(name, at) ==
    /\ loading' = name
    /\ pending' = pending \cup {name}
    /\ awaiting' = [awaiting EXCEPT ![name] = at]

\* handleAction, lines 28-30: finally setLoading(null).
Finish(name) ==
    /\ loading' = "none"
    /\ pending' = pending \ {name}
    /\ awaiting' = [awaiting EXCEPT ![name] = "none"]

\* The trial state handleStartTrial sets on success (lines 169-171).
AfterStart(trial) ==
    [currentTrial |-> trial, isTrialActive |-> TRUE,
     trialStartTime |-> trial.id]

\* A stop that leaves the start time set.
AfterStopKeepsStartTime ==
    [currentTrial |-> NoTrial, isTrialActive |-> FALSE,
     trialStartTime |-> trialStartTime]

\* The trial state handleStopTrial sets at its end (lines 204-206).
AfterStop ==
    [currentTrial |-> NoTrial, isTrialActive |-> FALSE,
     trialStartTime |-> NoValue]

\* The page is displayed: the effect loads the (placeholder) session.
ClinMount ==
    /\ ~currentSession
    /\ currentSession' = TRUE
    /\ UNCHANGED <<notClin, currentTrial, isTrialActive, trialStartTime,
                   recentTrials, trialsCreated, loading, pending, awaiting,
                   mvcRequest, clinAlert>>

\* Start Trial is pressed: handleAction sets loading and calls
\* handleStartTrial, which alerts and returns without a session and
\* otherwise sends api.createTrial and awaits it (lines 152-167).
PressStart ==
    /\ StartEnabled
    /\ trialsCreated < MaxTrials
    /\ IF ~currentSession
       THEN /\ Invoke("start", "returned")
            /\ clinAlert' = "no session"
       ELSE /\ Invoke("start", "createTrial")
            /\ UNCHANGED clinAlert
    /\ UNCHANGED <<notClin, currentSession, currentTrial, isTrialActive,
                   trialStartTime, recentTrials, trialsCreated, mvcRequest>>

\* handleStartTrial finishes.  When it had returned at once nothing is left
\* to do; otherwise api.createTrial completes: the new trial carries the
\* MVC of the current trial, or the patient's baseline MVC.
StartDone ==
    /\ "start" \in pending
    /\ Finish("start")
    /\ IF awaiting["start"] # "createTrial"
       THEN UNCHANGED <<trialsCreated, currentTrial, isTrialActive,
                        trialStartTime, clinAlert>>
       ELSE \E ok \in BOOLEAN :
         IF ok /\ trialsCreated < MaxTrials
         THEN LET trial == [id |-> trialsCreated + 1,
                            mvc_rms_uv |-> IF currentTrial.mvc_rms_uv # 0
                                           THEN currentTrial.mvc_rms_uv
                                           ELSE BASELINE_MVC]
              IN /\ trialsCreated' = trialsCreated + 1
                 /\ currentTrial' = AfterStart(trial).currentTrial
                 /\ isTrialActive' = AfterStart(trial).isTrialActive
                 /\ trialStartTime' = AfterStart(trial).trialStartTime
                 /\ UNCHANGED clinAlert
         ELSE /\ clinAlert' = "start failed"
              /\ UNCHANGED <<trialsCreated, currentTrial, isTrialActive,
                             trialStartTime>>
    /\ UNCHANGED <<notClin, currentSession, recentTrials, mvcRequest>>

\* Stop Trial is pressed: handleStopTrial returns at once without a current
\* trial; with a start time it sends api.analyticsPsd and awaits it;
\* without one it ends the trial at once (lines 178-206).
PressStop ==
    /\ StopEnabled
    /\ IF currentTrial = NoTrial
       THEN /\ Invoke("stop", "returned")
            /\ UNCHANGED <<currentTrial, isTrialActive, trialStartTime>>
       ELSE IF trialStartTime = NoValue
       THEN /\ Invoke("stop", "returned")
            /\ isTrialActive' = AfterStop.isTrialActive
            /\ trialStartTime' = AfterStop.trialStartTime
            /\ currentTrial' = AfterStop.currentTrial
       ELSE /\ Invoke("stop", "psd")
            /\ UNCHANGED <<currentTrial, isTrialActive, trialStartTime>>
    /\ UNCHANGED <<notClin, currentSession, recentTrials, trialsCreated,
                   mvcRequest, clinAlert>>

\* handleStopTrial finishes.  When it had returned at once nothing is left
\* to do; otherwise api.analyticsPsd completes: the trial is listed when its
\* PSD was computed, and the trial is no longer active and no longer
\* current.
StopDone ==
    /\ "stop" \in pending
    /\ Finish("stop")
    /\ IF awaiting["stop"] # "psd"
       THEN UNCHANGED <<recentTrials, isTrialActive, currentTrial,
                        trialStartTime>>
       ELSE /\ \E psdOk \in BOOLEAN :
                 recentTrials' = IF psdOk THEN recentTrials + 1
                                 ELSE recentTrials
            /\ isTrialActive' = AfterStop.isTrialActive
            /\ trialStartTime' = AfterStop.trialStartTime
            /\ currentTrial' = AfterStop.currentTrial
    /\ UNCHANGED <<notClin, currentSession, trialsCreated, mvcRequest,
                   clinAlert>>

\* handleCaptureMVC up to its first await (lines 212-222), run inside the
\* click: without a current trial it alerts and returns; otherwise it sends
\* api.emgHistory for the last 3 seconds.
handleCaptureMVC ==
    IF currentTrial = NoTrial
    THEN /\ Invoke("mvc", "returned")
         /\ clinAlert' = "start a trial first"
    ELSE /\ Invoke("mvc", "emgHistory")
         /\ UNCHANGED clinAlert

\* Capture MVC is pressed: handleAction sets loading and calls
\* handleCaptureMVC.
PressCaptureMvc ==
    /\ CaptureMvcEnabled
    /\ handleCaptureMVC
    /\ UNCHANGED <<notClin, currentSession, currentTrial, isTrialActive,
                   trialStartTime, recentTrials, trialsCreated, mvcRequest>>

\* api.emgHistory is answered (lines 222-232): a rejection alerts and ends
\* the handler; a history without a positive RMS ends it silently; otherwise
\* the handler sends setTrialMVC(currentTrial.id, maxRms) and awaits it.
CaptureMvcHistory ==
    \E ok \in BOOLEAN, samples \in ClinHistories :
      LET maxRms == MaxPositiveRms(samples)
      IN IF ~ok
         THEN /\ Finish("mvc")
              /\ clinAlert' = "capture failed"
              /\ UNCHANGED <<currentTrial, mvcRequest>>
         ELSE IF maxRms = NoValue
         THEN /\ Finish("mvc")
              /\ UNCHANGED <<currentTrial, mvcRequest, clinAlert>>
         ELSE /\ mvcRequest' = [trial |-> currentTrial.id,
                                mvc_rms_uv |-> maxRms]
              /\ awaiting' = [awaiting EXCEPT !["mvc"] = "setTrialMVC"]
              /\ UNCHANGED <<loading, pending, currentTrial, clinAlert>>

\* api.setTrialMVC is answered (lines 232-242): on success the current
\* trial, if still set, takes the captured MVC and the operator is told; a
\* rejection alerts and leaves the trial as it was.
CaptureMvcSet ==
    /\ Finish("mvc")
    /\ \E ok \in BOOLEAN :
         IF ok
         THEN /\ currentTrial' =
                   IF currentTrial = NoTrial THEN NoTrial
                   ELSE [currentTrial EXCEPT
                           !.mvc_rms_uv = mvcRequest.mvc_rms_uv]
              /\ clinAlert' = "MVC captured"
         ELSE /\ clinAlert' = "capture failed"
              /\ UNCHANGED currentTrial
    /\ UNCHANGED mvcRequest

\* handleCaptureMVC continues after an await, or handleAction after the
\* handler has returned.
CaptureMvcDone ==
    /\ "mvc" \in pending
    /\ CASE awaiting["mvc"] = "emgHistory" -> CaptureMvcHistory
         [] awaiting["mvc"] = "setTrialMVC" -> CaptureMvcSet
         [] OTHER -> /\ Finish("mvc")
                     /\ UNCHANGED <<currentTrial, mvcRequest, clinAlert>>
    /\ UNCHANGED <<notClin, currentSession, isTrialActive, trialStartTime,
                   recentTrials, trialsCreated>>

\* Flag Compensation is pressed: handleAction sets loading and calls
\* handleFlagCompensation, which alerts and returns (lines 245-248).
PressFlag ==
    /\ SidebarFree
    /\ Invoke("flag", "returned")
    /\ clinAlert' = "compensation flagged"
    /\ UNCHANGED <<notClin, currentSession, currentTrial, isTrialActive,
                   trialStartTime, recentTrials, trialsCreated, mvcRequest>>

\* handleAction continues after handleFlagCompensation has returned.
FlagDone ==
    /\ "flag" \in pending
    /\ Finish("flag")
    /\ UNCHANGED <<notClin, currentSession, currentTrial, isTrialActive,
                   trialStartTime, recentTrials, trialsCreated, mvcRequest,
                   clinAlert>>

ClinNext ==
    \/ ClinMount
    \/ PressStart
    \/ StartDone
    \/ PressStop
    \/ StopDone
    \/ PressCaptureMvc
    \/ CaptureMvcDone
    \/ PressFlag
    \/ FlagDone

ClinSpec == Init /\ [][ClinNext]_vars

\* The operator keeps using every button that is enabled and every request
\* completes.
ClinFairSpec ==
    /\ ClinSpec
    /\ WF_vars(ClinMount)
    /\ SF_vars(PressStart)
    /\ WF_vars(StartDone)
    /\ SF_vars(PressStop)
    /\ WF_vars(StopDone)
    /\ SF_vars(PressCaptureMvc)
    /\ WF_vars(CaptureMvcDone)
    /\ SF_vars(PressFlag)
    /\ WF_vars(FlagDone)

----------------------------------------------------------------------------
(* Wireless-to-HTTP gateway (ble_gateway.py) *)

\* BATCH_SIZE = 50, POST_INTERVAL_SEC = 0.25
BATCH_SIZE == 50
BATCH_TIMEOUT_MS == 250

\* Sequence number of the first frame received on a connection.
GwFirstSeqs == {100, 65534}
\* Frames lost on the radio link before a received frame.
GwLost == {0, 1, 2}
\* In-order frames received in one step: a single notification, or a run of
\* notifications arriving back to back.
GwBursts == {1, 49}

\* The expected number after frame s, without the wrap.
ExpectedAfterNoWrap(s) == s + 1
\* The expected number after frame s: its successor as a 16-bit number.
ExpectedAfter(s) == (s + 1) % SEQ_MOD

\* Frames presumed lost when s arrives and e was expected.
LostFrames(e, s) == (s - e + SEQ_MOD) % SEQ_MOD

\* The batch is flushed only when it holds more than BATCH_SIZE records.
BatchOverfull(n) == n > BATCH_SIZE
\* The batch has reached BATCH_SIZE records.
BatchFull(n) == n >= BATCH_SIZE

\* The oldest unflushed record has waited for the batch timeout.
BatchTimedOut(age) == age >= BATCH_TIMEOUT_MS

\* The peripheral is found and the telemetry characteristic subscribed: the
\* sequence tracker starts afresh.
GwConnect ==
    /\ gwLink = "down"
    /\ gwLink' = "up"
    /\ gwExpected' = NoSeq
    /\ UNCHANGED <<notGw, gwLastSeq, gwGaps, gwBatch, gwAge, gwPosts,
                   gwLastPost, gwFrames, gwNotifies>>

\* The link is lost; the batch is kept.
GwLinkLoss ==
    /\ gwLink = "up"
    /\ gwLink' = "down"
    /\ UNCHANGED <<notGw, gwExpected, gwLastSeq, gwGaps, gwBatch, gwAge,
                   gwPosts, gwLastPost, gwFrames, gwNotifies>>

\* k frames with consecutive sequence numbers s, s+1, ... are received.  The
\* first is compared with the expected number: a difference is logged with
\* the number of presumed-lost frames, and the tracker follows the received
\* numbers.  Every decoded record joins the batch; the batch is sent as one
\* POST when it reaches BATCH_SIZE.
GwReceive(s, k) ==
    /\ gwGaps' = IF gwExpected # NoSeq /\ s # gwExpected
                 THEN Append(gwGaps, LostFrames(gwExpected, s))
                 ELSE gwGaps
    /\ gwLastSeq' = (s + k - 1) % SEQ_MOD
    /\ gwExpected' = ExpectedAfter((s + k - 1) % SEQ_MOD)
    /\ gwFrames' = gwFrames + k
    /\ IF BatchFull(gwBatch + k)
       THEN /\ gwPosts' = gwPosts + 1
            /\ gwLastPost' = [n |-> BATCH_SIZE, age |-> gwAge]
            /\ gwBatch' = gwBatch + k - BATCH_SIZE
            /\ gwAge' = 0
       ELSE /\ gwBatch' = gwBatch + k
            /\ UNCHANGED <<gwPosts, gwLastPost, gwAge>>

GwNotify ==
    /\ gwLink = "up"
    /\ gwNotifies < MaxNotifies
    /\ gwPosts < MaxPosts
    /\ gwNotifies' = gwNotifies + 1
    /\ \E k \in GwBursts :
         IF gwExpected = NoSeq
         THEN \E s \in GwFirstSeqs : GwReceive(s, k)
         ELSE \E lost \in GwLost :
                GwReceive((gwExpected + lost) % SEQ_MOD, k)
    /\ UNCHANGED <<notGw, gwLink>>

\* Time passes; when the oldest unflushed record has waited for the batch
\* timeout the partial batch is sent as one POST.
GwAdvance ==
    /\ gwBatch > 0
    /\ gwPosts < MaxPosts
    /\ IF BatchTimedOut(gwAge + GwTickMs)
       THEN /\ gwPosts' = gwPosts + 1
            /\ gwLastPost' = [n |-> gwBatch, age |-> gwAge + GwTickMs]
            /\ gwBatch' = 0
            /\ gwAge' = 0
       ELSE /\ gwAge' = gwAge + GwTickMs
            /\ UNCHANGED <<gwPosts, gwLastPost, gwBatch>>
    /\ UNCHANGED <<notGw, gwLink, gwExpected, gwLastSeq, gwGaps, gwFrames,
                   gwNotifies>>

GwNext ==
    \/ GwConnect
    \/ GwLinkLoss
    \/ GwNotify
    \/ GwAdvance

GwSpec == Init /\ [][GwNext]_vars

----------------------------------------------------------------------------
(* Legacy Arduino sketch (emg_stream.ino) *)

\* Times are pairs <<hi, lo>> with 0 <= lo < 65536 standing for
\* hi * 65536 + lo.  An unsigned long of the sketch has hi < 65536.
HALF == 65536

\* const unsigned long sampleIntervalMicros = 1000UL
sampleIntervalMicros == 1000

\* t + d for a small d
WAddSmall(t, d) == <<t[1] + (t[2] + d) \div HALF, (t[2] + d) % HALF>>
\* n * sampleIntervalMicros
IntervalTimes(n) ==
    WAddSmall(<<(n \div HALF) * sampleIntervalMicros, 0>>,
              (n % HALF) * sampleIntervalMicros)
WAdd(a, b) == <<a[1] + b[1] + (a[2] + b[2]) \div HALF, (a[2] + b[2]) % HALF>>
WGeq(a, b) == a[1] > b[1] \/ (a[1] = b[1] /\ a[2] >= b[2])
\* The value as an unsigned long (modulo 2^32).
U32(t) == <<t[1] % HALF, t[2]>>
\* a - b on unsigned longs
U32Sub(a, b) ==
    LET borrow == IF a[2] < b[2] THEN 1 ELSE 0
    IN <<(a[1] - b[1] - borrow + HALF) % HALF, (a[2] - b[2] + HALF) % HALF>>
\* micros()
micros(clock) == U32(clock)

\* now >= nextSampleTime on unsigned longs
Due(nowU, next) == WGeq(nowU, next)

\* Time from power-up to setup()'s micros(), time between two passes of
\* loop(), analogRead values, and lengths of long runs in which every sample
\* is taken as its deadline arrives.
SkBootTimes == {96, 1500}
SkDelays == {100, 1000, 1700}
SkRaws == {0, 1023}
SteadyRuns == {4294967}
\* Time from a deadline to the pass of loop() that sees it, in a long run.
SkLatency == 4

\* setup(): Serial.begin, header, nextSampleTime = micros().
SketchSetup ==
    /\ skPc = "boot"
    /\ skPc' = "loop"
    /\ \E t \in SkBootTimes :
         /\ skClock' = <<0, t>>
         /\ skSetupAt' = <<0, t>>
         /\ nextSampleTime' = micros(<<0, t>>)
    /\ UNCHANGED <<notSk, firstTs, firstSample, skTaken, skTakenAt, skRow,
                   skLoops>>

\* The body of loop() at time t with analogRead value raw.
LoopBody(t, raw) ==
    LET nowU == micros(t)
    IN IF Due(nowU, nextSampleTime)
       THEN /\ firstTs' = IF firstSample THEN nowU ELSE firstTs
            /\ firstSample' = FALSE
            /\ skRow' = [rel |-> U32Sub(nowU, firstTs'), raw |-> raw]
            /\ nextSampleTime' =
                 U32(WAddSmall(nextSampleTime, sampleIntervalMicros))
            /\ skTaken' = skTaken + 1
            /\ skTakenAt' = t
       ELSE UNCHANGED <<firstTs, firstSample, skRow, nextSampleTime,
                        skTaken, skTakenAt>>

\* One pass of loop(), d microseconds after the previous one.
SketchLoop ==
    /\ skPc = "loop"
    /\ skLoops < MaxLoops
    /\ skLoops' = skLoops + 1
    /\ \E d \in SkDelays, raw \in SkRaws :
         /\ skClock' = WAddSmall(skClock, d)
         /\ LoopBody(skClock', raw)
    /\ UNCHANGED <<notSk, skPc, skSetupAt>>

\* A long run of n samples, none of them late: loop() is passed many times
\* and each sample is taken SkLatency microseconds after its deadline.  The
\* run ends before the clock wraps.
SketchSteadyRun ==
    /\ skPc = "loop"
    /\ \E n \in SteadyRuns, raw \in SkRaws :
         LET lastDeadline == WAdd(skSetupAt, IntervalTimes(skTaken + n - 1))
             t == WAddSmall(lastDeadline, SkLatency)
             first == WAddSmall(WAdd(skSetupAt, IntervalTimes(skTaken)),
                                SkLatency)
         IN /\ WGeq(first, skClock)
            /\ WAddSmall(lastDeadline, sampleIntervalMicros)[1] < HALF
            /\ skClock' = t
            /\ firstTs' = IF firstSample THEN micros(first) ELSE firstTs
            /\ firstSample' = FALSE
            /\ skRow' = [rel |-> U32Sub(micros(t), firstTs'), raw |-> raw]
            /\ nextSampleTime' =
                 U32(WAddSmall(lastDeadline, sampleIntervalMicros))
            /\ skTaken' = skTaken + n
            /\ skTakenAt' = t
    /\ UNCHANGED <<notSk, skPc, skSetupAt, skLoops>>

SketchNext ==
    \/ SketchSetup
    \/ SketchLoop
    \/ SketchSteadyRun

SketchSpec == Init /\ [][SketchNext]_vars

----------------------------------------------------------------------------
(* I2C bus scanner (i2c_scan.c) *)

\* for (uint8_t addr = 0x03; addr < 0x78; addr++)
SCAN_FIRST == 3
SCAN_LIMIT == 120

\* Addresses at which a device may acknowledge in the model: the first and
\* the last address probed and the ADS1115 (0x03, 0x48, 0x77).
ScanCandidates == {3, 72, 119}

\* The loop condition with the last address left out.
ScanContinuesShort(addr) == addr < SCAN_LIMIT - 1

\* The loop condition addr < 0x78.
ScanContinues(addr) == addr < SCAN_LIMIT

\* i2c_scan_bus(): found = 0 and the loop initialiser.
ScanStart ==
    /\ scanPc = "idle"
    /\ scanPc' = "loop"
    /\ scanAddr' = SCAN_FIRST
    /\ scanFound' = 0
    /\ UNCHANGED <<notScan, scanProbed, scanLogged, scanWarned>>

\* One iteration: start + address + stop, i2c_master_cmd_begin; on ESP_OK
\* the address is logged and counted; addr++ on a uint8_t.
ScanProbe ==
    /\ scanPc = "loop"
    /\ ScanContinues(scanAddr)
    /\ scanProbed' = Append(scanProbed, scanAddr)
    /\ \E ack \in BOOLEAN :
         /\ ack => scanAddr \in ScanCandidates
         /\ IF ack
            THEN /\ scanLogged' = Append(scanLogged, scanAddr)
                 /\ scanFound' = scanFound + 1
            ELSE UNCHANGED <<scanLogged, scanFound>>
    /\ scanAddr' = (scanAddr + 1) % 256
    /\ UNCHANGED <<notScan, scanPc, scanWarned>>

\* After the loop: the wiring checklist when found == 0, else the summary.
ScanFinish ==
    /\ scanPc = "loop"
    /\ ~ScanContinues(scanAddr)
    /\ scanPc' = "done"
    /\ scanWarned' = (scanFound = 0)
    /\ UNCHANGED <<notScan, scanAddr, scanProbed, scanLogged, scanFound>>

ScanNext ==
    \/ ScanStart
    \/ ScanProbe
    \/ ScanFinish

ScanSpec == Init /\ [][ScanNext]_vars

----------------------------------------------------------------------------
(* Real-time biofeedback chart (RealTimeBiofeedback.tsx) *)

\* Values of the mvcRmsUv prop (null, 0 and two positive values), of the
\* target-zone props, and of the rms and envelope fields of a sample
\* (NoValue: null or absent).  The zone is the default of the component
\* (lines 19-20), which is also what its one render site passes
\* (Calibration.tsx:272-278).  With an MVC of 450 the zone runs from 90 to
\* 360; with 100 from 20 to 80.
BioMvcs == {NoValue, 0, 100, 450}
BioZones == {[min |-> 20, max |-> 80]}
BioRmsValues == {NoValue, 0, 20, 80, 81, 90, 360, 361}
BioEnvValues == {NoValue, 89, 90}
BioSampleSet == [rms : BioRmsValues, envelope : BioEnvValues]
BioHistories ==
    {<<>>} \cup {<<s>> : s \in BioSampleSet}
           \cup {<<s, t>> : s \in {[rms |-> NoValue, envelope |-> NoValue],
                                   [rms |-> 90, envelope |-> 89]},
                            t \in BioSampleSet}

NoPercent == <<NoValue, 1>>
NoCurrent == [value |-> NoValue, percentMVC |-> NoPercent]

SampleValueEnvelopeFirst(s) ==
    IF s.envelope # NoValue THEN s.envelope
    ELSE IF s.rms # NoValue THEN s.rms ELSE 0

\* s.rms ?? s.envelope ?? 0
SampleValue(s) ==
    IF s.rms # NoValue THEN s.rms
    ELSE IF s.envelope # NoValue THEN s.envelope ELSE 0

\* chartData (lines 44-63): value and percentMVC of every sample.  The
\* percentage (rms / mvcRmsUv) * 100 is a double; it is kept as the fraction
\* <<numerator, denominator>> of the exact quotient, and the rounding of
\* the division and of the multiplication is applied where the value is
\* compared.  NoPercent is null.
chartData(samples, mvcRmsUv) ==
    [i \in 1..Len(samples) |->
        [value |-> SampleValue(samples[i]),
         percentMVC |->
            IF mvcRmsUv = NoValue \/ mvcRmsUv <= 0 THEN NoPercent
            ELSE <<SampleValue(samples[i]) * 100, mvcRmsUv>>]]

\* currentValue (line 65): the last entry of chartData, or null.
currentValue(data) == IF Len(data) > 0 THEN data[Len(data)] ELSE NoCurrent

\* (z / 100) * 100 in IEEE-754 double precision (round to nearest, ties to
\* even) for a whole number z in 0..200, compared with z: -1 when the product
\* is below z (29 gives 28.999999999999996), 1 when it is above (7 gives
\* 7.000000000000001), 0 when it is z.
Fl64PercentOf(z) ==
    IF z \in {29, 57, 58, 113, 114, 115, 116} THEN -1
    ELSE IF z \in {7, 14, 28, 55, 56, 109, 110, 111, 112} THEN 1
    ELSE 0

\* percentMVC >= z and percentMVC <= z on doubles, z a whole number in
\* 0..200.  A quotient rms / mvcRmsUv whose exact percentage is not z lies
\* at least 1 / mvcRmsUv away from it, far more than the rounding; one whose
\* exact percentage is z equals z / 100, and the double computed is the one
\* of (z / 100) * 100.
PercentAtLeast(p, z) ==
    \/ p[1] > z * p[2]
    \/ p[1] = z * p[2] /\ Fl64PercentOf(z) >= 0

PercentAtMost(p, z) ==
    \/ p[1] < z * p[2]
    \/ p[1] = z * p[2] /\ Fl64PercentOf(z) <= 0

\* inTargetZone (lines 66-68)
inTargetZone(samples, mvcRmsUv, zone) ==
    LET cur == currentValue(chartData(samples, mvcRmsUv))
    IN IF cur # NoCurrent /\ cur.percentMVC # NoPercent
       THEN /\ PercentAtLeast(cur.percentMVC, zone.min)
            /\ PercentAtMost(cur.percentMVC, zone.max)
       ELSE FALSE

\* The component is rendered (or rendered again with other props) by its
\* parent; samples starts empty on the first render.
BioRender ==
    /\ bioMounted' = TRUE
    /\ \E mvc \in BioMvcs, zone \in BioZones :
         /\ bioMvc' = mvc
         /\ bioZone' = zone
         /\ bioInZone' = inTargetZone(bioSamples, mvc, zone)
    /\ UNCHANGED <<notBio, bioSamples>>

\* setSamples(hist) after a history poll, and the render that follows.
BioSetSamples ==
    /\ bioMounted
    /\ \E hist \in BioHistories :
         /\ bioSamples' = hist
         /\ bioInZone' = inTargetZone(hist, bioMvc, bioZone)
    /\ UNCHANGED <<notBio, bioMounted, bioMvc, bioZone>>

\* The component is removed; its state is discarded.
BioUnmount ==
    /\ bioMounted
    /\ bioMounted' = FALSE
    /\ bioSamples' = <<>>
    /\ bioInZone' = FALSE
    /\ UNCHANGED <<notBio, bioMvc, bioZone>>

BioNext ==
    \/ BioRender
    \/ BioSetSamples
    \/ BioUnmount

BioSpec == Init /\ [][BioNext]_vars

----------------------------------------------------------------------------
(* Helpers of the properties *)

Range(q) == {q[i] : i \in 1..Len(q)}
Last(q) == q[Len(q)]

\* Packets that have been written to the UART as rows.
RowPackets ==
    {uartOut[i].p : i \in {j \in 1..Len(uartOut) : uartOut[j].kind = "row"}}

\* Samples that the raw variant of the UART task has written as rows.
RawRows ==
    {i \in 1..Len(uartOut) : uartOut[i].kind = "raw_row"}

BothConsumersRunning ==
    /\ streamPc = "run" /\ streamQ
    /\ notifyPc = "recv" /\ notifyQ

----------------------------------------------------------------------------
(* Properties of the pipeline (Spec) *)

\* C1: with the UART task and the wireless task both running, a packet taken
\* from the processed queue by one of them still reaches the other: a packet
\* the wireless task receives is, or will be, a UART row, and a packet the
\* UART task receives remains available to the wireless task.
C1_EveryPacketReachesBothConsumers ==
    [][BothConsumersRunning =>
         /\ NotifyRecv =>
              Head(s_proc_queue.items) \in
                  (RowPackets' \cup Range(s_proc_queue'.items))
         /\ StreamStep =>
              Head(s_proc_queue.items) \in Range(s_proc_queue'.items)]_vars

\* C2: neither queue ever holds more than its capacity, and a producer that
\* finds its output queue full discards the new item, leaves the queue as it
\* was and goes on with its loop.
QueuesBounded ==
    /\ Len(s_emg_queue.items) <= QueueCap
    /\ Len(s_proc_queue.items) <= QueueCap

AcqDropsOnFull ==
    (nProduced' = nProduced + 1 /\ Len(s_emg_queue.items) = QueueCap) =>
        /\ s_emg_queue' = s_emg_queue
        /\ acqPc' = "delay"

ProcDropsOnFull ==
    (Len(built') = Len(built) + 1 /\ Len(s_proc_queue.items) = QueueCap) =>
        /\ s_proc_queue' = s_proc_queue
        /\ procPc' = "run"

C2_BoundedQueuesDropNewest ==
    /\ []QueuesBounded
    /\ [][AcqDropsOnFull /\ ProcDropsOnFull]_vars

\* C2 witness: the processing task has found its output queue full, and the
\* queue still holds its capacity of older packets.
C2_Witness ==
    /\ procDropped >= 1
    /\ Len(s_proc_queue.items) = QueueCap
    /\ procPc = "run"

\* C3 as stated: every sample the acquisition loop produced is accounted for
\* by the processing task, i.e. it waits in the raw queue or has yielded its
\* one packet.
C3_EveryProducedSampleYieldsOnePacket ==
    nProduced = Len(s_emg_queue.items) + Len(built)

\* C3 amended: every sample the raw queue accepted waits in the queue, or
\* has yielded exactly one packet, or (raw variant of the UART task) has
\* been written as one raw row; no sample is taken twice.  Each dequeue
\* removes exactly the head sample; the processing task builds exactly one
\* packet from it, carrying that sample's timestamp, raw code and volts.
AcceptedSamplesAccounted ==
    /\ nProduced - rawDropped =
          Len(s_emg_queue.items) + Len(built) + Cardinality(RawRows)
    /\ \A i, j \in 1..Len(built) : i # j => built[i].ts_us # built[j].ts_us
    /\ \A i, j \in RawRows : i # j => uartOut[i].p # uartOut[j].p
    /\ \A i \in 1..Len(built), j \in RawRows :
          built[i].ts_us # uartOut[j].p.ts_us

TakenByProcessing ==
    /\ built' # built
    /\ built' = Append(built, Last(built'))
    /\ Last(built').ts_us = Head(s_emg_queue.items).ts_us
    /\ Last(built').raw = Head(s_emg_queue.items).raw
    /\ Last(built').volts = Head(s_emg_queue.items).volts
    /\ uartOut' = uartOut

TakenByRawStream ==
    /\ built' = built
    /\ Len(uartOut') = Len(uartOut) + 1
    /\ Last(uartOut').kind = "raw_row"
    /\ Last(uartOut').p = Head(s_emg_queue.items)

OnePacketPerDequeue ==
    /\ (s_emg_queue'.items # s_emg_queue.items
          /\ Len(s_emg_queue'.items) <= Len(s_emg_queue.items)) =>
         /\ s_emg_queue'.items = Tail(s_emg_queue.items)
         /\ TakenByProcessing \/ TakenByRawStream
    /\ built' # built => s_emg_queue'.items = Tail(s_emg_queue.items)

C3_AcceptedSampleYieldsOnePacket ==
    /\ []AcceptedSamplesAccounted
    /\ [][OnePacketPerDequeue]_vars

\* C3 witness: a sample was refused by the full raw queue, and the accepted
\* ones have all been processed.
C3_Witness ==
    /\ rawDropped >= 1
    /\ Len(built) = QueueCap
    /\ s_emg_queue.items = <<>>

\* C4: when app_main reaches its heartbeat loop it has started acquisition,
\* processing, UART streaming and the wireless peripheral, in this order.
C4_StartupStartsAllStagesInOrder ==
    mainPc = "heartbeat" =>
        mainStarted = <<"acq", "proc", "stream", "ble">>

\* C5: the activation flag is 0 before the first sample; a sample with the
\* envelope at or above the on-threshold leaves it 1, one at or below the
\* off-threshold leaves it 0, and one strictly between leaves it as it was;
\* the packet carries the flag's new value.
ActivationStartsOff == built = <<>> => active = 0

ActivationStep ==
    built' # built =>
        LET e == Last(built').env
        IN /\ e >= THRESH_ON_UV => active' = 1
           /\ e <= THRESH_OFF_UV => active' = 0
           /\ (THRESH_OFF_UV < e /\ e < THRESH_ON_UV) => active' = active
           /\ (active = 1 /\ active' = 0) => e <= THRESH_OFF_UV
           /\ Last(built').active = active'

C5_HysteresisActivation ==
    /\ []ActivationStartsOff
    /\ [][ActivationStep]_vars

\* C5 witness: the flag went on at the on-threshold and was then held on by
\* a sample whose envelope lies strictly between the thresholds.
C5_Witness ==
    /\ Len(built) >= 2
    /\ built[Len(built) - 1].env >= THRESH_ON_UV
    /\ Last(built).env > THRESH_OFF_UV
    /\ Last(built).env < THRESH_ON_UV
    /\ Last(built).active = 1
    /\ active = 1

----------------------------------------------------------------------------
(* Properties of the telemetry path (BleSpec) *)

\* C6: two consecutively transmitted frames are at least the minimum
\* interval apart (by the clock value the task read at the dequeue), and a
\* packet dequeued before the interval has elapsed since the last transmitted
\* frame is discarded: nothing of it is kept, no sequence number is taken.
FramesSpaced ==
    \A i \in 1..(Len(frames) - 1) :
        frames[i + 1].t - frames[i].t >= BLE_STREAM_INTERVAL_MS * 1000

EarlyPacketDropped ==
    (NotifyRecv /\ frames # <<>>
       /\ now - Last(frames).t < BLE_STREAM_INTERVAL_MS * 1000) =>
        /\ notifyPc' = "recv"
        /\ pkt' = pkt
        /\ s_seq' = s_seq
        /\ frames' = frames
        /\ Head(s_proc_queue.items) \notin Range(s_proc_queue'.items)

C6_FramesRateLimited ==
    /\ []FramesSpaced
    /\ [][EarlyPacketDropped]_vars

\* C6 witness: two frames of one connection were transmitted and a packet
\* produced between their two packets was not.
C6_Witness ==
    /\ Len(frames) >= 2
    /\ frames[1].epoch = frames[2].epoch
    /\ \E p \in Range(built) :
         /\ frames[1].ts_ms * 1000 < p.ts_us
         /\ p.ts_us < frames[2].ts_ms * 1000

\* C7: the sequence counter counts the transmitted frames (modulo 65536):
\* whenever the task is not between taking a number and the notify call the
\* counter equals the number of frames transmitted, and consecutive frames of
\* one connection carry consecutive numbers.
C7_SeqCountsTransmittedFrames ==
    /\ notifyPc # "send" => s_seq = Len(frames) % SEQ_MOD
    /\ \A i \in 1..(Len(frames) - 1) :
         frames[i + 1].epoch = frames[i].epoch =>
             frames[i + 1].seq = (frames[i].seq + 1) % SEQ_MOD

\* C8: with a central connected and notifications enabled, whatever handle
\* the connection has, a packet dequeued at least the minimum interval after
\* the last send is taken for transmission.
C8_SubscribedPacketIsSent ==
    [][(NotifyRecv /\ link = "conn" /\ s_notify_enabled
          /\ now - last_send_us >= BLE_STREAM_INTERVAL_MS * 1000) =>
         notifyPc' = "send"]_vars

\* C10: the first frame built and transmitted on a connection that follows
\* an earlier connection's frames restarts the sequence count.
C10_SeqRestartsOnReconnect ==
    \A i \in 2..Len(frames) :
        (frames[i - 1].epoch < frames[i].epoch
           /\ frames[i].built_in = frames[i].epoch) => frames[i].seq = 0

----------------------------------------------------------------------------
(* Properties of the connection state machine (GapFairSpec) *)

\* C9: gap_event() leaves the handle and the subscription flag cleared and
\* the device advertising after every disconnect and every failed connect;
\* with no central connected and no event pending the device advertises, and
\* whenever the controller is idle the device eventually advertises again.
ClearedAndAdvertising ==
    /\ link = "adv"
    /\ s_conn_handle = 0
    /\ ~s_notify_enabled

DiscoverableWhenUnconnected ==
    (bleState = "synced" /\ evt = NoEvt /\ link # "conn") =>
        ClearedAndAdvertising

LinkLossHandled ==
    (GapEvent /\ (evt.type = "disconnect"
                    \/ (evt.type = "connect" /\ evt.status # 0))) =>
        ClearedAndAdvertising'

C9_AdvertisingResumes ==
    /\ []DiscoverableWhenUnconnected
    /\ [][LinkLossHandled]_vars
    /\ (bleState = "synced" /\ link = "idle") ~> (link = "adv")

----------------------------------------------------------------------------
(* Properties of the sliding RMS (RmsSpec) *)

Min(a, b) == IF a < b THEN a ELSE b

RECURSIVE SumSquares(_, _, _)
\* Exact sum of the squares of q[lo..hi].
SumSquares(q, lo, hi) ==
    IF lo > hi THEN 0 ELSE q[lo] * q[lo] + SumSquares(q, lo + 1, hi)

\* Exact sum of the squares of the samples the window covers.
WindowSumSquares ==
    SumSquares(rmsIn, Len(rmsIn) - Min(Len(rmsIn), RMS_N) + 1, Len(rmsIn))

Abs(v) == IF v < 0 THEN -v ELSE v

\* C11: after n samples the count is min(n, 86), the write index is within
\* [0, 86), the reported value is the square root of running sum over count,
\* and the running sum is the sum of the squares of the last min(n, 86)
\* samples (to within one part in 1024, which allows for single-precision
\* rounding of the sum).
C11_RmsWindowTracksLastSamples ==
    rms.cap = RMS_N =>
        /\ rms.count = Min(Len(rmsIn), RMS_N)
        /\ rms.idx \in 0..(RMS_N - 1)
        /\ rms_value(rms) = [sumsq |-> rms.sumsq, count |-> rms.count]
        /\ Abs(rms.sumsq - WindowSumSquares) <= WindowSumSquares \div 1024

----------------------------------------------------------------------------
(* Properties of the frame layout (EncSpec) *)

Max(a, b) == IF a > b THEN a ELSE b

\* v is an integer nearest to x / 1000.
NearestThousandth(v, x) == Abs(1000 * v - x) <= 500

\* v is x / 1000 rounded to an integer and then limited to [lo, hi].
RoundedAndLimited(v, x, lo, hi) ==
    \E k \in {x \div 1000, x \div 1000 + 1} :
        /\ NearestThousandth(k, x)
        /\ v = Min(hi, Max(lo, k))

\* The unsigned and the signed 16-bit value stored little-endian at bytes
\* i, i + 1 of the frame (bytes counted from 1).
FrameU16(i) == encOut[i] + 256 * encOut[i + 1]
FrameI16(i) == IF FrameU16(i) >= 32768 THEN FrameU16(i) - 65536
               ELSE FrameU16(i)

\* C12: the frame has 12 bytes laid out as timestamp (4), envelope (2),
\* RMS (2), activation (1), quality (1), sequence (2): the timestamp is the
\* low 32 bits of ts_us / 1000, envelope and RMS are the millivolt values
\* rounded and saturated to [-32768, 32767], activation is 0 or 1, quality is
\* round(snr * 25) limited to 0..100.
C12_FrameEncoding ==
    encOut # <<>> =>
        /\ Len(encOut) = 12
        /\ \A i \in 1..12 : encOut[i] \in 0..255
        /\ FrameU16(1) = encIn.ts.lo \div 1000
        /\ FrameU16(3) = encIn.ts.hi % 65536
        /\ RoundedAndLimited(FrameI16(5), encIn.env, -32768, 32767)
        /\ RoundedAndLimited(FrameI16(7), encIn.rms, -32768, 32767)
        /\ encOut[9] = (IF encIn.active = 0 THEN 0 ELSE 1)
        /\ encOut[10] \in 0..100
        /\ RoundedAndLimited(encOut[10], encIn.snr * 25, 0, 100)
        /\ FrameU16(11) = encIn.seq

\* C12 witness: a frame whose envelope saturated high and RMS saturated low,
\* whose quality was limited to 100, and whose millisecond count had passed
\* 2^32.
C12_Witness ==
    /\ encOut # <<>>
    /\ encIn.env > 32767500
    /\ FrameI16(5) = 32767
    /\ encIn.rms < -32768500
    /\ FrameI16(7) = -32768
    /\ encIn.snr > 4000
    /\ encOut[10] = 100
    /\ encIn.ts.hi >= 65536

----------------------------------------------------------------------------
(* Properties of wireless start-up (BleSpec) *)

\* Wireless initialisation has failed: ble_emg_start gave up at one of its
\* stages, or on_ble_sync ran and the service registration was refused (the
\* stack assigned no value handle).
BleInitFailed ==
    \/ bleState = "failed"
    \/ bleState = "synced" /\ s_val_handle = 0

\* C13: when wireless initialisation fails at any sub-stage (controller
\* init, controller enable, HCI init, host enable, service registration) the
\* notification task is not running and the device does not go on air, while
\* the tasks already started keep their state.
C13_BleInitFailureStartsNothing ==
    BleInitFailed => (notifyPc = "none" /\ link = "off")

----------------------------------------------------------------------------
(* Properties of a failed ADC initialisation (Spec) *)

\* C14: once ADC initialisation has failed the acquisition task is gone for
\* good and has never enqueued a sample; app_main is in its heartbeat loop
\* and stays there, and a started processing task stays started, with its
\* input queue empty and no packet built.
AcqDeadNeverEnqueued ==
    acqPc = "dead" =>
        /\ nProduced = 0
        /\ rawDropped = 0
        /\ s_emg_queue.items = <<>>
        /\ built = <<>>
        /\ mainPc = "heartbeat"

AcqDeadStaysDead ==
    acqPc = "dead" =>
        /\ acqPc' = "dead"
        /\ mainPc' = "heartbeat"
        /\ procPc = "run" => procPc' = "run"

C14_AdcInitFailureStopsOnlyAcquisition ==
    /\ []AcqDeadNeverEnqueued
    /\ [][AcqDeadStaysDead]_vars

\* C14 witness: ADC initialisation failed, the processing task was started
\* afterwards and is waiting, and the clock has moved on.
C14_Witness ==
    /\ acqPc = "dead"
    /\ procPc = "run"
    /\ mainPc = "heartbeat"
    /\ now >= 2 * TickUs
    /\ s_emg_queue.h
    /\ s_emg_queue.items = <<>>

----------------------------------------------------------------------------
(* Properties of the ADS1115 driver (AdcSpec) *)

InitAttemptsInOrder ==
    /\ Len(adcCall.attempts) \in 1..3
    /\ \A k \in 1..Len(adcCall.attempts) :
         adcCall.attempts[k].cfg = <<"primary", "swapped", "slow">>[k]

\* Every attempt before the last one set the bus up and saw its probe fail.
InitStopsAtFirstAnswer ==
    \A k \in 1..(Len(adcCall.attempts) - 1) :
        adcCall.attempts[k].reinit /\ ~adcCall.attempts[k].probe

InitAllProbesFailed ==
    /\ Len(adcCall.attempts) = 3
    /\ \A k \in 1..3 :
         adcCall.attempts[k].reinit /\ ~adcCall.attempts[k].probe

\* C15 as stated: initialize tries primary, swapped, slow in this order,
\* stops at the first configuration whose probe succeeds, and signals failure
\* only if all three were attempted and each probe failed.
C15_FailureOnlyAfterAllFallbacks ==
    adcCall.op = "init" =>
        /\ InitAttemptsInOrder
        /\ InitStopsAtFirstAnswer
        /\ adcCall.ret = "fail" => InitAllProbesFailed

\* C15 amended: the order and the early exit as stated; success is signalled
\* only after an answered probe; failure is signalled when all three probes
\* failed, and also at once when the bus set-up of an attempt fails, and
\* after an answered probe (when the configuration write fails).
C15_FallbackLadder ==
    adcCall.op = "init" =>
        LET n == Len(adcCall.attempts)
            last == adcCall.attempts[n]
        IN /\ InitAttemptsInOrder
           /\ InitStopsAtFirstAnswer
           /\ adcCall.ret = "ok" => last.probe
           /\ adcCall.ret = "fail" =>
                (~last.reinit \/ InitAllProbesFailed \/ last.probe)
           /\ InitAllProbesFailed => adcCall.ret = "fail"
           /\ ~last.reinit => adcCall.ret = "fail"
           /\ last.probe => adcCall.written = DefaultConfig

\* C15 witness: all three configurations were tried, no probe was answered,
\* and initialize signalled failure.
C15_Witness ==
    /\ adcCall.op = "init"
    /\ InitAllProbesFailed
    /\ adcCall.ret = "fail"
    /\ i2cCfg = "slow"

\* Volts-per-count (1/128 uV) of the range selected by a 3-bit gain code.
LsbOfGainCode(c) ==
    IF c = 0 THEN 24000
    ELSE IF c = 1 THEN 16000
    ELSE IF c = 2 THEN 8000
    ELSE IF c = 3 THEN 4000
    ELSE IF c = 4 THEN 2000
    ELSE 1000

GainCode(reg) == (reg \div 512) % 8

\* A step of ads1115_set_pga: the call's position changes, or the call
\* rejects its argument and returns at once.
SetPgaStep ==
    \/ pgaPc' # pgaPc
    \/ /\ pgaPc = "idle"
       /\ adcCall' # adcCall
       /\ adcCall'.op = "set_pga"

\* C16: once initialize has succeeded, after any sequence of further
\* initialize and set-PGA calls made one after the other the LSB is the one
\* of the gain field held in the device's configuration register (an
\* initialize call in progress sets the LSB when its read-back has ended),
\* and a set-PGA call changes no register bit outside bits 11:9.
LsbMatchesRegister ==
    (adcReady /\ ~adcOverlap /\ adsInitPc # "readback") =>
        s_lsb_volts = LsbOfGainCode(GainCode(adcReg))

SetPgaTouchesOnlyGainField ==
    (SetPgaStep /\ ~adcOverlap) =>
        /\ adcReg' \div 4096 = adcReg \div 4096
        /\ adcReg' % 512 = adcReg % 512

C16_LsbFollowsGainField ==
    /\ []LsbMatchesRegister
    /\ [][SetPgaTouchesOnlyGainField]_vars

\* C16 witness: after a successful initialize a set-PGA to +/-0.256 V was
\* accepted: the register holds gain code 5 and the LSB is 7.8125 uV.
C16_Witness ==
    /\ adcReady
    /\ ~adcOverlap
    /\ adcCall.op = "set_pga"
    /\ adcCall.ret = "ok"
    /\ GainCode(adcReg) = 5
    /\ s_lsb_volts = 1000
    /\ adcReg % 512 = 227

\* What holds of the step in which a set-PGA call returns.
SetPgaReturned ==
    /\ adcCall'.op = "set_pga"
    /\ adcCall'.arg \notin {0, 512, 1024, 1536, 2048, 2560} =>
         /\ adcCall'.ret = "invalid_arg"
         /\ adcCall'.busOps = 0
         /\ adcReg' = adcReg
         /\ s_lsb_volts' = s_lsb_volts
    /\ adcCall'.arg \in {0, 512, 1024, 1536, 2048, 2560} =>
         /\ adcCall'.ret \in {"ok", "fail"}
         /\ adcCall'.busOps \in {1, 2}
    /\ adcCall'.ret = "fail" =>
         /\ adcReg' = adcReg
         /\ s_lsb_volts' = s_lsb_volts

\* C17: a set-PGA request that is not one of the six range fields returns
\* invalid-argument before any bus transaction and leaves register and LSB
\* unchanged; a set-PGA that fails on the bus returns the error and leaves
\* register and LSB unchanged; a set-PGA call still waiting for the bus has
\* changed neither.
SetPgaRejects ==
    SetPgaStep =>
        /\ pgaPc' # "idle" => (adcReg' = adcReg /\ s_lsb_volts' = s_lsb_volts)
        /\ pgaPc' = "idle" => SetPgaReturned

C17_InvalidOrFailedSetPgaChangesNothing == [][SetPgaRejects]_vars

\* C17 witness: with the driver initialised and the range set to +/-2.048 V,
\* a request for gain code 6 was rejected without touching the bus.
C17_Witness ==
    /\ adcReady
    /\ adcCall.op = "set_pga"
    /\ adcCall.arg = 3072
    /\ adcCall.ret = "invalid_arg"
    /\ adcCall.busOps = 0
    /\ GainCode(adcReg) = 2
    /\ s_lsb_volts = 8000

\* C18: set-gain with a value in (0, 100] makes it the software gain, any
\* other value leaves the gain as it was, and a conversion multiplies the
\* count by the LSB and by the gain set last.
SetGainStep ==
    adcCall'.op = "set_gain" =>
        IF adcCall'.arg > 0 /\ adcCall'.arg <= 10000
        THEN s_gain' = adcCall'.arg
        ELSE s_gain' = s_gain

ScaleUsesGain ==
    adcCall'.op = "scale" =>
        adcCall'.volts = (adcCall'.arg * s_lsb_volts * s_gain) \div 12800

C18_SetGainValidated ==
    /\ [](s_gain > 0 /\ s_gain <= 10000)
    /\ [][SetGainStep /\ ScaleUsesGain]_vars

\* C18 witness: the gain was set to 100 and a conversion at the default
\* range returned 12.5 mV per count.
C18_Witness ==
    /\ adcCall.op = "scale"
    /\ s_gain = 10000
    /\ s_lsb_volts = 16000
    /\ adcCall.volts = adcCall.arg * 12500

\* C19 as stated: the default configuration word is 0x41E3 (16867), and
\* after initialize wrote it the read-back returns the same value.
C19_DefaultConfigIs41E3 ==
    (adcCall.op = "init" /\ adcCall.ret = "ok" /\ ~adcOverlap) =>
        /\ adcCall.written = 16867
        /\ adcCall.readback # 0 => adcCall.readback = adcCall.written

\* C19 amended: the default configuration word assembled from its bit
\* fields is 0x42E3 (17123); initialize writes it, the register holds it,
\* and the read-back returns the same value.
C19_DefaultConfigIs42E3 ==
    (adcCall.op = "init" /\ adcCall.ret = "ok" /\ ~adcOverlap) =>
        /\ adcCall.written = 17123
        /\ adcReg = adcCall.written
        /\ adcCall.readback # 0 => adcCall.readback = adcCall.written

\* C19 witness: initialize succeeded and its read-back returned 0x42E3.
C19_Witness ==
    /\ ~adcOverlap
    /\ adcCall.op = "init"
    /\ adcCall.ret = "ok"
    /\ adcCall.readback = 17123

----------------------------------------------------------------------------
(* Properties of the dashboard pollers (UiSpec) *)

\* A step in which a call in flight completes (only that shortens the list).
CallCompleted == Len(uiInflight') < Len(uiInflight)

\* A step in which the health request of a failed latest-sample call is
\* answered.
HealthAnswered == uiHealth' # uiHealth /\ uiHealth' \subseteq uiHealth

\* C20: the outcome (success or failure) of a network call that completes
\* after its poller was stopped or its component removed changes no
\* application state.
C20_LateOutcomeChangesNothing ==
    [][((CallCompleted \/ HealthAnswered) /\ ~uiLast'.live) =>
          (uiData' = uiData /\ backendOnline' = backendOnline)]_vars

\* C21: in the interval-driven history pollers (live biofeedback, dashboard
\* refresh), once a later poll has been issued the outcome of an earlier poll
\* that completes afterwards is discarded, so what is displayed never goes
\* back to the response of an older request.
C21_SupersededPollDiscarded ==
    [][(uiPoller \in {"biofeedback", "dashboard"} /\ CallCompleted) =>
          /\ uiLast'.req < uiIssued =>
                (uiData' = uiData /\ uiShown' = uiShown)
          /\ uiShown' >= uiShown]_vars

\* C22: after the stop function of the latest-sample poller was called, no
\* further latest-sample request is issued and no further tick is scheduled.
C22_StoppedLatestPollerIsQuiet ==
    [][(uiPoller \in LatestPollers /\ ~uiActive /\ ~uiActive') =>
          (uiIssued' = uiIssued /\ uiTimers' \subseteq uiTimers)]_vars

\* C23: a failed latest-sample request is answered by a health check; the
\* backend-online flag changes only with the outcome of a health check
\* (online exactly when the status is 'ok'), a successful request leaves it
\* alone, and a running poller arms its next tick after the failure.
C23_FailureRunsHealthCheck ==
    [][/\ (uiPoller \in LatestPollers /\ CallCompleted) =>
             /\ backendOnline' = backendOnline
             /\ ~uiLast'.ok =>
                   \E c \in uiHealth' \ uiHealth : c.req = uiLast'.req
       /\ HealthAnswered =>
             /\ uiLast'.health \in HealthOutcomes
             /\ backendOnline' = (uiLast'.health = "ok")
             /\ uiLast'.live =>
                   (uiLast'.rearmed /\ uiGen \in uiTimers')
       /\ backendOnline' # backendOnline =>
             (uiLast'.health \in HealthOutcomes
              /\ backendOnline' = (uiLast'.health = "ok"))]_vars

----------------------------------------------------------------------------
(* Properties of the client-side log (LogSpec) *)

\* q holds at most n entries and they are the newest created: consecutive
\* ids ending at the last one created.
MostRecent(q, n) ==
    /\ Len(q) <= n
    /\ \A k \in 1..Len(q) : q[k] = logNextId - 1 - (Len(q) - k)

\* C24: after any sequence of log additions the client-side log holds at
\* most 1,000 entries and they are the most recent ones, both in the
\* in-memory store (listed and exported by the Logs page) and in the
\* persisted copy (whenever the browser accepted the write).
C24_LogBoundedToMostRecent ==
    [][(logOpen /\ logNextId' > logNextId) =>
          /\ MostRecent(logs, LOG_KEEP)'
          /\ logStorage' # logStorage =>
                /\ logStorage'.set
                /\ MostRecent(logStorage.items, LOG_KEEP)']_vars

----------------------------------------------------------------------------
(* Properties of the calibration page (CalSpec) *)

\* The baseline saved for channel ch.
Saved(ch) == LoadBaseline(ch)

----------------------------------------------------------------------------
(* Properties of the clinical trial page (ClinSpec, ClinFairSpec) *)

\* The Capture MVC button can be pressed only when no trial is current, and
\* no set-trial-MVC request is ever issued.
CaptureMvcNeverHasTrial ==
    /\ isTrialActive <=> currentTrial # NoTrial
    /\ CaptureMvcEnabled => currentTrial = NoTrial
    /\ mvcRequest = NoRequest

\* C26: the operator can capture MVC for a trial after creating it: with an
\* operator who keeps starting trials and pressing Capture MVC, the Capture
\* MVC action at some point issues the set-trial-MVC request for the
\* current trial (with the maximum positive RMS of the preceding 3 seconds).
C26_CaptureMvcIssuesRequest ==
    <>(mvcRequest # NoRequest /\ mvcRequest.trial \in 1..MaxTrials)

----------------------------------------------------------------------------
(* Properties of the gateway (GwSpec) *)

C28_GapLoggedOnSequenceBreak ==
    /\ [](gwExpected # NoSeq => gwExpected = (gwLastSeq + 1) % SEQ_MOD)
    /\ [][gwNotifies' > gwNotifies =>
            LET k == gwFrames' - gwFrames
                s == (gwLastSeq' - (k - 1) + SEQ_MOD) % SEQ_MOD
            IN /\ gwExpected' = (gwLastSeq' + 1) % SEQ_MOD
               /\ IF gwExpected = NoSeq \/ s = (gwLastSeq + 1) % SEQ_MOD
                  THEN gwGaps' = gwGaps
                  ELSE /\ Len(gwGaps') = Len(gwGaps) + 1
                       /\ gwGaps'[Len(gwGaps')] =
                            (s - gwLastSeq - 1 + SEQ_MOD) % SEQ_MOD
                       /\ gwGaps'[Len(gwGaps')] \in GwLost \ {0}]_vars

\* Frames 100, 101 and 103 were received: one gap of size 1 is logged and
\* 104 is expected next.
C28_Witness ==
    /\ gwFrames = 3
    /\ gwLastSeq = 103
    /\ gwGaps = <<1>>
    /\ gwExpected = 104

----------------------------------------------------------------------------
(* Properties of the processed UART stream (Spec) *)

\* The packet member printed in a column of the header.
MemberOfColumn(col) ==
    CASE col = "time_us" -> "ts_us"
      [] col = "adc" -> "raw"
      [] OTHER -> col

\* The conversion that prints a packet member: int64 and int members as
\* integers, float members as floats (snr with 3 decimals).
ConversionOfMember(m) ==
    CASE m = "ts_us" -> "lld"
      [] m \in {"raw", "active"} -> "d"
      [] m = "snr" -> ".3f"
      [] OTHER -> ".6f"

\* C29: the processed stream emits the nine-column header exactly once,
\* before any row, then one row per dequeued packet, and every row has
\* exactly nine fields in header order (rms as a float, active as an
\* integer, snr last).
C29_HeaderThenNineFieldRows ==
    /\ streamPc = "run" =>
          /\ Len(uartOut) >= 1
          /\ uartOut[1] = StreamHeader
          /\ Len(uartOut[1].fields) = 9
    /\ \A i \in 2..Len(uartOut) : streamPc = "run" =>
          /\ uartOut[i].kind = "row"
          /\ Len(uartOut[i].fields) = Len(HeaderColumns)
          /\ \A c \in 1..Len(uartOut[i].fields) :
                /\ uartOut[i].fields[c].arg = MemberOfColumn(HeaderColumns[c])
                /\ uartOut[i].fields[c].conv =
                     ConversionOfMember(uartOut[i].fields[c].arg)

----------------------------------------------------------------------------
(* Properties of the legacy sketch (SketchSpec) *)

\* The deadline of sample number n (the first sample is number 0).
Deadline(n) == WAdd(skSetupAt, IntervalTimes(n))

\* C30: with the 32-bit microsecond clock, the deadline of the n-th sample is
\* the setup time plus n x 1000 microseconds whenever the earlier samples
\* were taken; no sample is taken before its deadline; the first row reports
\* 0 and every row the microseconds elapsed since the first sample.
C30_DeadlinesAccumulate ==
    /\ [](skPc = "loop" => nextSampleTime = U32(Deadline(skTaken)))
    /\ [][skTaken' > skTaken =>
            /\ WGeq(skTakenAt', Deadline(skTaken' - 1))
            /\ skTaken' = 1 => skRow'.rel = <<0, 0>>
            /\ skRow'.rel = U32Sub(micros(skTakenAt'), firstTs')]_vars


----------------------------------------------------------------------------
(* C31: notifications against connection events *)

\* The notify task reached ble_gatts_notify_custom() in this step: the mbuf
\* was allocated, so last_send_us takes the clock value of the dequeue.
NotifyCallMade ==
    notifyPc = "send" /\ notifyPc' = "recv" /\ last_send_us' # last_send_us

\* C31: whatever the interleaving of the host task's connection events with
\* the notify task, at the moment the notify call is made notifications are
\* enabled and the handle passed to it is that of the live connection.
C31_NotifyOnlyWhileSubscribedAndLinked ==
    [][NotifyCallMade =>
          /\ s_notify_enabled
          /\ link = "conn"
          /\ s_conn_handle = linkHandle]_vars
----------------------------------------------------------------------------
(* Properties of the bus scanner (ScanSpec) *)

\* The addresses lo .. hi in ascending order, each once.
Ascending(lo, hi) == [i \in 1..(hi - lo + 1) |-> lo + i - 1]

\* A finished run probed exactly the addresses lo .. hi in ascending order,
\* counted every acknowledgement and warned exactly when there was none.
ScanCovers(lo, hi) ==
    scanPc = "done" =>
        /\ scanProbed = Ascending(lo, hi)
        /\ scanFound = Len(scanLogged)
        /\ \A i \in 1..Len(scanLogged) :
             \E j \in 1..Len(scanProbed) : scanProbed[j] = scanLogged[i]
        /\ scanWarned <=> scanLogged = <<>>

\* C32 as stated: one run of the bus scanner issues exactly one probe for
\* each 7-bit address in [0x03, 0x77) (0x77 excluded), in ascending order and
\* for no other address, counts each address that acknowledges, and emits
\* the wiring-checklist warning exactly when no address acknowledged.
C32_ScanCoversHalfOpenRange == ScanCovers(3, 118)

\* C32, amended: one run of the bus scanner issues exactly one probe for each
\* 7-bit address from 0x03 to 0x77 inclusive, in ascending order and for no
\* other address, counts each address that acknowledges, and emits the
\* wiring-checklist warning exactly when no address acknowledged.
C32_ScanCoversClosedRange == ScanCovers(3, 119)

\* A finished run in which the last address, 0x77, and one more acknowledged.
C32_Witness ==
    /\ scanPc = "done"
    /\ scanFound = 2
    /\ Last(scanLogged) = 119
    /\ ~scanWarned

----------------------------------------------------------------------------
(* Properties of the biofeedback chart (BioSpec) *)

\* The value of the last sample received: its RMS, or its envelope when the
\* RMS is absent, or 0 when both are.
LastValue ==
    LET s == Last(bioSamples)
    IN IF s.rms = NoValue
       THEN (IF s.envelope = NoValue THEN 0 ELSE s.envelope)
       ELSE s.rms

\* C33: the in-zone indicator is on exactly when a positive MVC is available
\* and the most recent sample's percent of MVC (RMS, or envelope when RMS is
\* absent, divided by MVC, times 100) lies within the target zone bounds,
\* inclusive; with no MVC or no samples it shows out of zone.  The bounds
\* are compared with the exact percentage.
C33_InZoneIndicator ==
    bioMounted =>
      (bioInZone <=>
         /\ bioMvc # NoValue
         /\ bioMvc > 0
         /\ bioSamples # <<>>
         /\ bioZone.min * bioMvc <= 100 * LastValue
         /\ 100 * LastValue <= bioZone.max * bioMvc)

\* The indicator is on for a sample without RMS whose envelope is exactly at
\* the lower bound of the zone (90 of 450).
C33_Witness ==
    /\ bioMounted
    /\ bioInZone
    /\ bioMvc = 450
    /\ bioZone = [min |-> 20, max |-> 80]
    /\ Last(bioSamples) = [rms |-> NoValue, envelope |-> 90]

----------------------------------------------------------------------------
(* C34: failed reads in the acquisition loop *)

\* One iteration of the acquisition loop was executed in this step.
AcqIterated == acqPc = "run" /\ acqPc' # "run"

\* The iteration's read failed: no sample was built.
AcqReadFailed == AcqIterated /\ nProduced' = nProduced

\* The raw queue received an entry in this step.
RawEnqueued == Len(s_emg_queue'.items) > Len(s_emg_queue.items)

\* C34: in the acquisition loop a failed ADC read enqueues nothing and never
\* terminates the task: the loop yields and retries on the next iteration,
\* and only successful reads ever produce a queue entry.
C34_FailedReadEnqueuesNothing ==
    /\ [][AcqReadFailed =>
            /\ s_emg_queue' = s_emg_queue
            /\ rawDropped' = rawDropped]_vars
    /\ [][AcqIterated => acqPc' = "delay"]_vars
    /\ [][acqPc = "delay" => acqPc' \in {"delay", "run"}]_vars
    /\ [][RawEnqueued =>
            /\ AcqIterated
            /\ nProduced' = nProduced + 1
            /\ s_emg_queue'.items =
                 Append(s_emg_queue.items, Last(s_emg_queue'.items))
            /\ Last(s_emg_queue'.items).ts_us = now
            /\ Last(s_emg_queue'.items).raw \in RawCodes]_vars

\* The loop has run an iteration whose read failed: the task waits in
\* vTaskDelay, no sample was built and the raw queue is still empty.
C34_Witness ==
    /\ acqPc = "delay"
    /\ nProduced = 0
    /\ s_emg_queue.h
    /\ s_emg_queue.items = <<>>
    /\ rawDropped = 0

----------------------------------------------------------------------------
(* C35: order through the pipeline *)

\* The device timestamps of the entries of a queue or list, in order.
TimesOf(q) == [i \in 1..Len(q) |-> q[i].ts_us]

\* The packets of the rows written to the UART, in order.
RowsInOrder ==
    LET idx == {i \in 1..Len(uartOut) : uartOut[i].kind = "row"}
        nth[k \in 0..Cardinality(idx)] ==
            IF k = 0 THEN 0
            ELSE CHOOSE i \in idx :
                   i > nth[k - 1] /\ \A j \in idx : j > nth[k - 1] => i <= j
    IN [k \in 1..Cardinality(idx) |-> uartOut[nth[k]].p]

\* Acquisition order: the loop takes one sample per tick, so a later sample
\* has a larger timestamp.
AcquisitionOrder(ts) == \A i, j \in 1..Len(ts) : i < j => ts[i] < ts[j]
NonDecreasing(ts) == \A i, j \in 1..Len(ts) : i < j => ts[i] <= ts[j]

\* C35: order is preserved through the pipeline: raw samples are dequeued in
\* the order they were enqueued, so the packets in the processed queue, and
\* the rows derived from them by the UART consumer, appear in acquisition
\* order with non-decreasing device timestamps, also when items are dropped
\* on full queues.
C35_OrderPreserved ==
    /\ [](/\ AcquisitionOrder(TimesOf(s_emg_queue.items))
          /\ AcquisitionOrder(TimesOf(built))
          /\ AcquisitionOrder(TimesOf(s_proc_queue.items))
          /\ NonDecreasing(TimesOf(s_proc_queue.items))
          /\ AcquisitionOrder(TimesOf(RowsInOrder \o s_proc_queue.items))
          /\ NonDecreasing(TimesOf(RowsInOrder))
          /\ \A i, j \in RawRows :
                i < j => uartOut[i].p.ts_us < uartOut[j].p.ts_us)
    /\ [][Len(s_emg_queue'.items) < Len(s_emg_queue.items) =>
            /\ s_emg_queue.items =
                 <<Head(s_emg_queue.items)>> \o s_emg_queue'.items
            /\ IF built' # built
               THEN Last(built').ts_us = Head(s_emg_queue.items).ts_us
               ELSE Last(uartOut').p = Head(s_emg_queue.items)]_vars

\* Two rows were written, in order, in a run in which a sample was refused
\* by the full raw queue.
C35_Witness ==
    /\ rawDropped > 0
    /\ Len(RowsInOrder) >= 2
    /\ RowsInOrder[1].ts_us < RowsInOrder[2].ts_us

----------------------------------------------------------------------------
(* C36, C37: trial state and sidebar actions of the clinical page *)

\* The handler of the named sidebar action finished in this step.
Finished(name) == name \in pending /\ name \notin pending'

\* The trial-active flag, the current trial and the trial start time agree.
TrialStateAgrees ==
    /\ isTrialActive <=> currentTrial # NoTrial
    /\ isTrialActive <=> trialStartTime # NoValue

\* C36: after every completed start-trial or stop-trial handler the three
\* pieces of trial state agree: the trial-active flag is true exactly when a
\* current trial is set and exactly when a trial start time is set; a start
\* that fails (no session, or the create-trial request fails) leaves all
\* three unchanged.
C36_TrialStateAgreesAfterHandlers ==
    /\ [][(Finished("start") \/ Finished("stop")) =>
            TrialStateAgrees']_vars
    /\ [][(Finished("start") /\ trialsCreated' = trialsCreated) =>
            /\ currentTrial' = currentTrial
            /\ isTrialActive' = isTrialActive
            /\ trialStartTime' = trialStartTime]_vars

\* A second trial is running after the first one was stopped, and a start
\* request has failed in between.
C36_Witness ==
    /\ isTrialActive
    /\ currentTrial.id = 2
    /\ trialStartTime = 2
    /\ clinAlert = "start failed"
    /\ pending = {}

\* C37: in the action sidebar at most one action (start, stop, capture MVC,
\* flag) is in progress at any time: while one action's handler is pending
\* no other handler is invoked, and the in-progress marker is always cleared
\* when the handler finishes, whether it succeeds or throws.
C37_OneSidebarActionAtATime ==
    /\ [](/\ Cardinality(pending) <= 1
          /\ pending = {} <=> loading = "none"
          /\ pending \subseteq {loading})
    /\ [][pending' \ pending # {} => pending = {}]_vars
    /\ [][pending \ pending' # {} => loading' = "none"]_vars

\* The flag handler is pending during a trial: its marker is set and no
\* other handler runs.
C37_Witness ==
    /\ isTrialActive
    /\ pending = {"flag"}
    /\ loading = "flag"

----------------------------------------------------------------------------
(* C38: consumers started before their input queue exists *)

\* An entry left the queue in this step.
Dequeued(q) == Len(q'.items) < Len(q.items)

\* C38: a consumer task that starts before its input queue has been created
\* never consumes anything, even if the queue is created later: the
\* processing task terminates for good when the raw-sample queue does not
\* exist at its start, and the UART streaming and notification tasks read
\* their queue handle only once, at their start.
C38_EarlyConsumerNeverConsumes ==
    /\ [][(procPc = "ready" /\ procPc' # "ready" /\ ~s_emg_queue.h) =>
            procPc' = "dead"]_vars
    /\ [][procPc = "dead" =>
            /\ procPc' = "dead"
            /\ built' = built
            /\ Dequeued(s_emg_queue) =>
                  (streamPc = "raw_run" /\ streamQ /\ uartOut' # uartOut)]_vars
    /\ [][(streamPc = "run" \/ streamPc = "raw_run") =>
            /\ streamQ' = streamQ
            /\ ~streamQ => uartOut' = uartOut]_vars
    /\ [][(notifyPc = "recv" \/ notifyPc = "send") =>
            /\ notifyQ' = notifyQ
            /\ ~notifyQ => (notifyPc' = notifyPc /\ s_seq' = s_seq)]_vars
    /\ [][Dequeued(s_proc_queue) =>
            \/ streamPc = "run" /\ streamQ /\ uartOut' # uartOut
            \/ notifyPc = "recv" /\ notifyQ /\ uartOut' = uartOut]_vars
    /\ [][Dequeued(s_emg_queue) =>
            \/ procPc = "run" /\ built' # built
            \/ streamPc = "raw_run" /\ streamQ /\ uartOut' # uartOut]_vars

\* All three consumers started before their queue existed; both queues were
\* created afterwards and a sample waits in the raw queue with nobody
\* reading it.
C38_Witness ==
    /\ procPc = "dead"
    /\ streamPc = "run" /\ ~streamQ
    /\ notifyPc = "recv" /\ ~notifyQ
    /\ s_proc_queue.h
    /\ s_emg_queue.h
    /\ Len(s_emg_queue.items) > 0

----------------------------------------------------------------------------
(* C39: the notifications-enabled flag *)

\* A central is connected, as the host task knows it: the connect event of
\* the live connection has been handled, or the connection has ended and its
\* disconnect event has not been handled yet.
CentralConnected ==
    \/ link = "conn" /\ evt.type # "connect"
    \/ evt.type = "disconnect"

\* C39: in every reachable state of the peripheral the notifications-enabled
\* flag is set only while a central is connected: it is set solely by a
\* subscribe event for the telemetry characteristic's own value handle and
\* is cleared on every disconnect, so a new connection always starts
\* unsubscribed.
C39_NotifyFlagOnlyWhileConnected ==
    /\ [](s_notify_enabled => CentralConnected)
    /\ [][(s_notify_enabled' /\ ~s_notify_enabled) =>
            /\ evt.type = "subscribe"
            /\ evt.attr_handle = s_val_handle
            /\ evt.attr_handle = TelemetryValHandle
            /\ evt.cur_notify]_vars
    /\ [][(evt.type = "disconnect" /\ evt' = NoEvt) =>
            ~s_notify_enabled']_vars
    /\ [][(link # "conn" /\ link' = "conn") =>
            (~s_notify_enabled /\ ~s_notify_enabled')]_vars

\* The second connection is subscribed: the first one ended with the flag
\* cleared and the new one was subscribed by its own subscribe event.
C39_Witness ==
    /\ s_notify_enabled
    /\ epoch = 2
    /\ link = "conn"
    /\ evt = NoEvt

====
